---- MODULE Spec2Model ----
(***************************************************************************)
(* Model of the sandboxed code execution subsystem of deep-shot            *)
(* (src/app/services/code_executor.py): the AST validator, the per-call    *)
(* execution environment, the worker thread of the ThreadPoolExecutor and  *)
(* CodeExecutor.execute with its timeout and exception handlers.           *)
(*                                                                         *)
(* Python values are records [t |-> type name, v |-> sequence of strings]; *)
(* a str is the sequence of its tokens, so str(e) = "" is [t |-> "str",    *)
(* v |-> <<>>] and differs from None.                                      *)
(***************************************************************************)
EXTENDS Integers, Sequences, FiniteSets, TLC

\* ------------------------------------------------------------------------
\* Bounds
\* ------------------------------------------------------------------------
\* calls of execute() the host makes
MaxCalls == 2
\* largest timeout_seconds the executor is constructed with
MaxTimeout == 2

\* wrappers around an expression of a generated syntax tree
MaxNesting == 2

\* largest max_retries of the Settings
MaxRetries == 2

\* calls of the model over all requests
MaxModelCalls == 3

\* host threads that may call execute()
Callers == {"t1", "t2"}

\* requests the event loop serves
Requests == {"r1", "r2"}

\* ------------------------------------------------------------------------
\* Python values
\* ------------------------------------------------------------------------
PyNone == [t |-> "NoneType", v |-> <<>>]
PyStr(tokens) == [t |-> "str", v |-> tokens]
PyInt(n) == [t |-> "int", v |-> <<ToString(n)>>]
PyBuiltin(name) == [t |-> "builtin_function_or_method", v |-> <<name>>]
PyModule(name) == [t |-> "module", v |-> <<name>>]
PyDictRef(id) == [t |-> "dict", v |-> id]
PyFunction(name) == [t |-> "function", v |-> <<name>>]

\* callable(x) for the values a candidate can bind
callable(x) == x.t \in {"function", "builtin_function_or_method", "type"}

\* ------------------------------------------------------------------------
\* Process-wide configuration
\* ------------------------------------------------------------------------
ALLOWED_IMPORTS ==
    {"nflreadpy", "nfl", "polars", "pl", "datetime", "math", "statistics",
     "json", "re"}

FORBIDDEN_CALLS ==
    {"eval", "exec", "open", "__import__", "compile", "globals", "locals",
     "vars", "dir", "getattr", "setattr", "delattr", "hasattr", "input",
     "breakpoint"}

FORBIDDEN_ATTRIBUTES ==
    {"__builtins__", "__code__", "__globals__", "__subclasses__",
     "__bases__", "__mro__", "__class__"}

SafeBuiltinFunctions ==
    {"abs", "all", "any", "enumerate", "filter", "isinstance", "issubclass",
     "iter", "len", "map", "max", "min", "next", "print", "repr", "reversed",
     "round", "sorted", "sum", "zip"}

SafeBuiltinTypes ==
    {"bool", "dict", "float", "frozenset", "int", "list", "range", "set",
     "slice", "str", "tuple", "type"}

\* the module-level dict SAFE_BUILTINS as it is after import of the module
SAFE_BUILTINS ==
    [n \in SafeBuiltinFunctions \cup SafeBuiltinTypes \cup {"True", "False", "None"} |->
        IF n \in SafeBuiltinFunctions THEN PyBuiltin(n)
        ELSE IF n \in SafeBuiltinTypes THEN [t |-> "type", v |-> <<n>>]
        ELSE IF n = "None" THEN PyNone
        ELSE [t |-> "bool", v |-> <<n>>]]

\* the module objects the environment hands to a candidate, by object
ModuleObjects ==
    {"nflreadpy", "polars", "datetime", "math", "statistics", "json", "re"}

\* ------------------------------------------------------------------------
\* Syntax trees and the validator
\* ------------------------------------------------------------------------
\* A node is [type, id, names, children]: id is Name.id or Attribute.attr,
\* names are the dotted module names of an import (each a sequence of
\* components; <<>> is ImportFrom with module None), children are the child
\* nodes in field order (for a Call the first child is func).
Node(type, id, names, children) ==
    [type |-> type, id |-> id, names |-> names, children |-> children]

Name(id) == Node("Name", id, <<>>, <<>>)
Attribute(value, attr) == Node("Attribute", attr, <<>>, <<value>>)
Call(func, args) == Node("Call", "", <<>>, <<func>> \o args)
Import(names) == Node("Import", "", names, <<>>)
ImportFrom(module) == Node("ImportFrom", "", <<module>>, <<>>)
Subscript(value) == Node("Subscript", "", <<>>, <<value>>)
Assign(target, value) == Node("Assign", "", <<>>, <<target, value>>)
Stmt(children) == Node("Stmt", "", <<>>, children)
Module(body) == Node("Module", "", <<>>, body)

RECURSIVE import_errors(_)
import_errors(names) ==
    IF names = <<>> THEN <<>>
    ELSE (IF Head(names)[1] \notin ALLOWED_IMPORTS
          THEN << <<"Import of">> \o Head(names) >> ELSE <<>>)
         \o import_errors(Tail(names))

RECURSIVE visit(_)
RECURSIVE generic_visit_from(_, _)

\* NodeVisitor.generic_visit: visit the children in order
generic_visit_from(children, i) ==
    IF i > Len(children) THEN <<>>
    ELSE visit(children[i]) \o generic_visit_from(children, i + 1)

generic_visit(node) == generic_visit_from(node.children, 1)

visit_Import(node) == import_errors(node.names) \o generic_visit(node)

\* visit_ImportFrom that looks at the last component of the dotted name
visit_ImportFrom_last_component(node) ==
    (IF node.names[1] # <<>>
        /\ node.names[1][Len(node.names[1])] \notin ALLOWED_IMPORTS
     THEN << <<"Import from">> \o node.names[1] >> ELSE <<>>)
    \o generic_visit(node)

visit_ImportFrom(node) ==
    (IF node.names[1] # <<>> /\ node.names[1][1] \notin ALLOWED_IMPORTS
     THEN << <<"Import from">> \o node.names[1] >> ELSE <<>>)
    \o generic_visit(node)

\* visit_Call that looks at calls of bare names only
visit_Call_names_only(node) ==
    LET func == node.children[1] IN
    (IF func.type = "Name" /\ func.id \in FORBIDDEN_CALLS
     THEN << <<"Call to", func.id>> >> ELSE <<>>)
    \o generic_visit(node)

visit_Call(node) ==
    LET func == node.children[1] IN
    (IF func.type \in {"Name", "Attribute"} /\ func.id \in FORBIDDEN_CALLS
     THEN << <<"Call to", func.id>> >> ELSE <<>>)
    \o generic_visit(node)

\* visit_Attribute that stops at a forbidden attribute
visit_Attribute_stopping(node) ==
    IF node.id \in FORBIDDEN_ATTRIBUTES
    THEN << <<"Access to", node.id>> >>
    ELSE generic_visit(node)

visit_Attribute(node) ==
    (IF node.id \in FORBIDDEN_ATTRIBUTES
     THEN << <<"Access to", node.id>> >> ELSE <<>>)
    \o generic_visit(node)

\* NodeVisitor.visit: dispatch on the node type; the result is the list of
\* errors the walk of this subtree appends to ASTValidator.errors
visit(node) ==
    CASE node.type = "Import" -> visit_Import(node)
      [] node.type = "ImportFrom" -> visit_ImportFrom(node)
      [] node.type = "Call" -> visit_Call(node)
      [] node.type = "Attribute" -> visit_Attribute(node)
      [] OTHER -> generic_visit(node)

ASTValidator(tree) == visit(tree)

RECURSIVE Flatten(_)
Flatten(seqs) == IF seqs = <<>> THEN <<>> ELSE Head(seqs) \o Flatten(Tail(seqs))

\* ------------------------------------------------------------------------
\* Candidate programs
\* ------------------------------------------------------------------------
\* A candidate source is
\*     <top statement>
\*     def run(): <body statement>; return <ret>     (or  run = 1, or nothing)
\* parse is the outcome of ast.parse, deep says that the tree nests deeper
\* than the interpreter's recursion limit allows NodeVisitor to walk, name
\* is the name its assignments and reads use, mod the global name of the
\* module whose attribute it sets or reads.
Candidate(parse, deep, top, run, body, ret, name, mod) ==
    [parse |-> parse, deep |-> deep, top |-> top, run |-> run, body |-> body,
     ret |-> ret, name |-> name, mod |-> mod]

Violating == {"import_os", "call_eval", "attr_class"}
Raising == {"raise_zerodiv", "raise_stopiter", "raise_sysexit", "raise_timeout"}
Rets == {"dict", "none", "list", "function", "cycle", "read_name", "read_attr"}

\* names a candidate assigns or reads: a built-in and a name of its own
CandidateNames == {"len", "tmp"}
\* global names of the modules whose attribute a candidate sets or reads
CandidateModules == {"math", "nfl"}

Plain(top, run, body, ret) ==
    Candidate("ok", FALSE, top, run, body, ret, "len", "math")

Candidates ==
    {Candidate("SyntaxError", FALSE, "pass", "def", "pass", "dict", "len", "math"),
     Candidate("SyntaxError", FALSE, "import_os", "def", "pass", "dict", "len", "math"),
     Candidate("ok", TRUE, "pass", "def", "pass", "dict", "len", "math"),
     Plain("import_os", "def", "call_eval", "dict"),
     Plain("import_os", "def", "loop", "dict"),
     Plain("import_mod", "def", "pass", "dict")}
    \cup {Candidate("ok", FALSE, "hook_mod", "def", "pass", "dict", "len", m) :
            m \in {"math", "os"}}
    \cup {Plain(t, "def", "pass", "dict") : t \in Violating}
    \cup {Plain("pass", "def", b, "dict") : b \in Violating}
    \cup {Plain(t, "absent", "pass", "dict") : t \in Raising \cup {"loop"}}
    \cup {Plain("pass", r, "pass", "dict") : r \in {"absent", "noncallable"}}
    \cup {Plain("pass", "def", b, "dict") : b \in Raising \cup {"loop"}}
    \cup {Plain("pass", "def", "pass", r) : r \in Rets \ {"read_name", "read_attr"}}
    \cup {Candidate("ok", FALSE, t, "def", "pass", "dict", n, "math") :
            t \in {"assign_global", "assign_builtin"}, n \in CandidateNames}
    \cup {Candidate("ok", FALSE, "pass", "def", b, "dict", n, "math") :
            b \in {"assign_global", "assign_builtin"}, n \in CandidateNames}
    \cup {Candidate("ok", FALSE, "pass", "def", "pass", "read_name", n, "math") :
            n \in CandidateNames}
    \cup {Candidate("ok", FALSE, t, "def", "pass", "read_name", n, "math") :
            t \in {"assign_global", "assign_builtin"}, n \in CandidateNames}
    \cup {Candidate("ok", FALSE, "setattr_module", "def", "pass", r, "len", m) :
            r \in {"dict", "read_attr"}, m \in CandidateModules}
    \cup {Candidate("ok", FALSE, "pass", "def", b, "read_attr", "len", m) :
            b \in {"pass", "setattr_module"}, m \in CandidateModules}

\* the candidates two host threads submit in parallel
ConcurrentCandidates ==
    {Plain("pass", "def", "pass", "dict"),
     Plain("setattr_module", "def", "pass", "dict"),
     Plain("pass", "def", "pass", "read_attr"),
     Plain("assign_builtin", "def", "pass", "read_name"),
     Plain("pass", "def", "loop", "dict")}

\* the syntax tree of one statement of the candidate src
StmtTree(src, kind) ==
    CASE kind = "import_os" -> Import(<< <<"os">> >>)
      [] kind = "import_mod" -> Import(<< <<src.mod>> >>)
      [] kind = "hook_mod" ->
            Stmt(<<Call(Subscript(Name("__builtins__")), <<>>)>>)
      [] kind = "call_eval" -> Stmt(<<Call(Name("eval"), <<>>)>>)
      [] kind = "attr_class" -> Stmt(<<Attribute(Name("math"), "__class__")>>)
      [] kind = "assign_global" -> Stmt(<<Name(src.name)>>)
      [] kind = "assign_builtin" ->
            Stmt(<<Node("Subscript", "", <<>>, <<Name("__builtins__")>>)>>)
      [] kind = "setattr_module" -> Stmt(<<Attribute(Name(src.mod), "pi")>>)
      [] kind = "raise_stopiter" ->
            Stmt(<<Call(Name("next"), <<Call(Name("iter"), <<>>)>>)>>)
      [] kind = "raise_sysexit" ->
            Stmt(<<Call(Attribute(Attribute(Name("statistics"), "sys"), "exit"),
                        <<>>)>>)
      [] kind = "raise_timeout" -> Stmt(<<Call(Name("T"), <<>>)>>)
      [] OTHER -> Stmt(<<>>)

RetTree(src) ==
    CASE src.ret = "read_name" -> Stmt(<<Call(Name("repr"), <<Name(src.name)>>)>>)
      [] src.ret = "read_attr" -> Stmt(<<Attribute(Name(src.mod), "pi")>>)
      [] OTHER -> Stmt(<<>>)

\* ast.parse(code) for a source that parses
TreeOf(src) ==
    Module(<<StmtTree(src, src.top)>>
           \o (CASE src.run = "def" ->
                      <<Node("FunctionDef", "run", <<>>,
                             <<StmtTree(src, src.body), RetTree(src)>>)>>
                 [] src.run = "noncallable" -> <<Stmt(<<Name("run")>>)>>
                 [] OTHER -> <<>>))

\* ------------------------------------------------------------------------
\* Exceptions and results
\* ------------------------------------------------------------------------
Exc(cls, message) == [cls |-> cls, message |-> message, traceback_str |-> PyNone]
NoException == Exc("", <<>>)

CodeValidationError(message) == Exc("CodeValidationError", message)
CodeExecutionError(message) == Exc("CodeExecutionError", message)

\* classes that are not subclasses of Exception
BaseOnly == {"SystemExit", "KeyboardInterrupt", "GeneratorExit", "BaseException"}
IsException(cls) == cls \notin BaseOnly

\* concurrent.futures.TimeoutError is the built-in TimeoutError
IsFuturesTimeoutError(cls) == cls = "TimeoutError"

\* the pydantic model: data is dict | None, anything else fails validation
CodeExecutionResult(success, data, error, traceback) ==
    [success |-> success, data |-> data, error |-> error, traceback |-> traceback]

DataValidates(data) == data.t \in {"dict", "NoneType"}

NoResult == CodeExecutionResult(FALSE, PyNone, PyNone, PyNone)

\* what a call has handed to its caller
Returned(r) == [kind |-> "return", result |-> r, exc |-> NoException]
Raised(e) == [kind |-> "raise", result |-> NoResult, exc |-> e]
Nothing == [kind |-> "none", result |-> NoResult, exc |-> NoException]

\* validate_code that reports a syntax error and drops the validator's errors
validate_code_ignoring_errors(code) ==
    IF code.parse = "SyntaxError"
    THEN CodeValidationError(<<"Syntax error in code">>)
    ELSE IF code.deep
    THEN Exc("RecursionError", <<"maximum recursion depth exceeded">>)
    ELSE NoException

\* validate_code that reports the first error only
validation_error_first_only(errors) ==
    IF errors # <<>>
    THEN CodeValidationError(<<"Code validation failed:">> \o errors[1])
    ELSE NoException

\* lines 162-166: the exception validate_code raises for the validator's errors
validation_error(errors) ==
    IF errors # <<>>
    THEN CodeValidationError(<<"Code validation failed:">> \o Flatten(errors))
    ELSE NoException

\* ast.parse that hands a tree back for every source
ast_parse_accepting(code) == NoException

\* lines 154-157: the exception raised for a source that does not parse
ast_parse(code) ==
    IF code.parse = "SyntaxError"
    THEN CodeValidationError(<<"Syntax error in code">>)
    ELSE NoException

\* CodeExecutor.validate_code: the exception it raises, NoException if none
validate_code(code) ==
    IF ast_parse(code) # NoException
    THEN ast_parse(code)
    ELSE IF code.deep
    THEN Exc("RecursionError", <<"maximum recursion depth exceeded">>)
    ELSE validation_error(ASTValidator(TreeOf(code)))

\* lines 215-219: the result execute returns for a CodeValidationError
validation_failure(e) ==
    Returned(CodeExecutionResult(FALSE, PyNone, PyStr(e.message), PyNone))

\* ------------------------------------------------------------------------
\* The execution environment and the candidate's statements
\* ------------------------------------------------------------------------
\* the module object each global name of the environment is bound to
ModuleOf(name) ==
    CASE name = "nfl" -> "nflreadpy"
      [] name = "pl" -> "polars"
      [] OTHER -> name

\* ids of dicts on the heap: the module-level SAFE_BUILTINS, and the dict
\* the n-th call of thread c creates
SafeBuiltinsId == <<"SAFE_BUILTINS">>
FreshId(c, n) == <<c, ToString(n)>>

\* the built-ins table of every call is the module-level dict itself
safe_builtins_shared(c, n) == SafeBuiltinsId

\* line 175: the dict that becomes the built-ins table of the n-th call of
\* thread c is a new dict
safe_builtins_with_import(c, n) == FreshId(c, n)

\* CodeExecutor._create_execution_environment, on the worker of the n-th call
\* of thread c, with the heap d of dicts: the globals dict, and the heap with
\* the built-ins table holding SAFE_BUILTINS and __import__
_create_execution_environment(c, n, d) ==
    LET id == safe_builtins_with_import(c, n) IN
    [g |-> ("__builtins__" :> PyDictRef(id))
           @@ [name \in ALLOWED_IMPORTS |-> PyModule(ModuleOf(name))],
     d |-> (id :> (("__import__" :> PyFunction("_safe_import")) @@ d[SafeBuiltinsId]))
           @@ d]

Unbound == [t |-> "<unbound>", v |-> <<>>]

\* name resolution of the interpreter: globals, then the built-ins table
Lookup(g, d, name) ==
    IF name \in DOMAIN g THEN g[name]
    ELSE LET b == d[g["__builtins__"].v] IN
         IF name \in DOMAIN b THEN b[name] ELSE Unbound

\* an import hook that looks at the last component of the dotted name
_safe_import_last_component(name) ==
    IF name[Len(name)] \notin ALLOWED_IMPORTS
    THEN Exc("ImportError", <<"Import of">> \o name \o <<"is not allowed">>)
    ELSE NoException

\* _safe_import(name) for a dotted name: the exception it raises
_safe_import(name) ==
    IF name[1] \notin ALLOWED_IMPORTS
    THEN Exc("ImportError", <<"Import of">> \o name \o <<"is not allowed">>)
    ELSE NoException

NameError(name) == Exc("NameError", <<"name", name, "is not defined">>)

\* one statement of candidate src run against globals g, dict heap d and
\* module attributes m: the exception it raises and the state it leaves
ExecStmt(kind, src, g, d, m) ==
    LET same == [exc |-> NoException, g |-> g, d |-> d, m |-> m]
        raise(e) == [exc |-> e, g |-> g, d |-> d, m |-> m]
    IN
    CASE kind = "assign_global" ->
            [same EXCEPT !.g = (src.name :> PyInt(5)) @@ g]
      [] kind = "assign_builtin" ->
            [same EXCEPT !.d = [d EXCEPT ![g["__builtins__"].v] =
                                    (src.name :> PyInt(5)) @@ @]]
      [] kind = "setattr_module" ->
            [same EXCEPT !.m = [m EXCEPT ![g[src.mod].v[1]] = "patched"]]
      [] kind = "import_os" ->
            IF Lookup(g, d, "__import__") = Unbound
            THEN raise(Exc("ImportError", <<"__import__ not found">>))
            ELSE raise(_safe_import(<<"os">>))
      [] kind = "import_mod" ->
            IF Lookup(g, d, "__import__") = Unbound
            THEN raise(Exc("ImportError", <<"__import__ not found">>))
            ELSE IF _safe_import(<<src.mod>>) # NoException
            THEN raise(_safe_import(<<src.mod>>))
            ELSE [same EXCEPT !.g = (src.mod :> PyModule(ModuleOf(src.mod))) @@ g]
      [] kind = "hook_mod" ->
            IF "__import__" \notin DOMAIN d[g["__builtins__"].v]
            THEN raise(Exc("KeyError", <<"__import__">>))
            ELSE raise(_safe_import(<<src.mod>>))
      [] kind = "call_eval" ->
            IF Lookup(g, d, "eval") = Unbound THEN raise(NameError("eval")) ELSE same
      [] kind = "raise_zerodiv" ->
            raise(Exc("ZeroDivisionError", <<"division by zero">>))
      [] kind = "raise_stopiter" -> raise(Exc("StopIteration", <<>>))
      [] kind = "raise_sysexit" -> raise(Exc("SystemExit", <<"0">>))
      [] kind = "raise_timeout" -> raise(Exc("TimeoutError", <<>>))
      [] OTHER -> same

\* a dict with one entry whose value is leaf
Dict1(leaf) == [t |-> "dict", v |-> <<leaf.t>> \o leaf.v]

\* the value of the return expression of run(), or the exception it raises
EvalRet(src, g, d, m) ==
    LET val(x) == [exc |-> NoException, val |-> x] IN
    CASE src.ret = "dict" -> val(Dict1(PyInt(42)))
      [] src.ret = "none" -> val(PyNone)
      [] src.ret = "list" -> val([t |-> "list", v |-> <<"int", "1">>])
      [] src.ret = "function" -> val(Dict1(PyFunction("<lambda>")))
      [] src.ret = "cycle" -> val([t |-> "dict", v |-> <<"self">>])
      [] src.ret = "read_name" ->
            LET x == Lookup(g, d, src.name) IN
            IF x = Unbound THEN [exc |-> NameError(src.name), val |-> PyNone]
            ELSE val(Dict1(PyStr(<<x.t>> \o x.v)))
      [] src.ret = "read_attr" ->
            val(Dict1(IF m[g[src.mod].v[1]] = "orig"
                      THEN [t |-> "float", v |-> <<"3.141592653589793">>]
                      ELSE PyInt(5)))

JSONTypes == {"dict", "list", "tuple", "str", "int", "float", "bool", "NoneType"}

\* json.dumps(result): the exception it raises
json_dumps(x) ==
    IF x.t \notin JSONTypes
    THEN Exc("TypeError", <<"Object of type", x.t, "is not JSON serializable">>)
    ELSE IF x.t \in {"dict", "list", "tuple"} /\ x.v # <<>> /\ x.v[1] = "self"
    THEN Exc("ValueError", <<"Circular reference detected">>)
    ELSE IF x.t \in {"dict", "list", "tuple"} /\ x.v # <<>> /\ x.v[1] \notin JSONTypes
    THEN Exc("TypeError", <<"Object of type", x.v[1], "is not JSON serializable">>)
    ELSE NoException

\* the globals after the statement of the source that binds run
bind_run(src, g) ==
    CASE src.run = "def" -> ("run" :> PyFunction("run")) @@ g
      [] src.run = "noncallable" -> ("run" :> PyInt(1)) @@ g
      [] OTHER -> g

\* an entry-point check that only asks whether the name run is bound
check_run_presence_only(g) ==
    IF "run" \notin DOMAIN g
    THEN CodeExecutionError(
             <<"Code must define a callable run() function with no arguments">>)
    ELSE NoException

\* lines 195-198: the exception the entry-point check raises
check_run(g) ==
    IF "run" \notin DOMAIN g \/ ~callable(g["run"])
    THEN CodeExecutionError(
             <<"Code must define a callable run() function with no arguments">>)
    ELSE NoException

\* lines 202-207: the exception the serialization check raises
check_serializable(result) ==
    LET e == json_dumps(result) IN
    IF e.cls = "TypeError"
    THEN CodeExecutionError(
             <<"run() must return JSON-serializable data. Got error:">> \o e.message)
    ELSE e

\* ------------------------------------------------------------------------
\* execute: what it does with the future and with an exception
\* ------------------------------------------------------------------------
Future(state, result, exception) ==
    [state |-> state, result |-> result, exception |-> exception]

NoFuture == Future("none", PyNone, NoException)

\* a timeout failure that does not say how long the timeout was
TimeoutFailure_without_duration(timeout) ==
    CodeExecutionResult(FALSE, PyNone, PyStr(<<"Code execution timed out">>), PyNone)

\* lines 228-231
TimeoutFailure(timeout) ==
    CodeExecutionResult(FALSE, PyNone,
        PyStr(<<"Code execution timed out after", ToString(timeout), "seconds">>),
        PyNone)

\* future.result that drops the value of the future
future_result_without_data(fut, timeout) ==
    IF fut.exception # NoException
    THEN IF IsFuturesTimeoutError(fut.exception.cls)
         THEN Returned(TimeoutFailure(timeout))
         ELSE Raised(fut.exception)
    ELSE Returned(CodeExecutionResult(TRUE, PyNone, PyNone, PyNone))

\* future.result(timeout=...) on a finished future and the statements of the
\* inner try: the return value or the exception that leaves the with block
future_result(fut, timeout) ==
    IF fut.exception # NoException
    THEN IF IsFuturesTimeoutError(fut.exception.cls)
         THEN Returned(TimeoutFailure(timeout))
         ELSE Raised(fut.exception)
    ELSE IF DataValidates(fut.result)
    THEN Returned(CodeExecutionResult(TRUE, fut.result, PyNone, PyNone))
    ELSE Raised(Exc("ValidationError",
                    <<"1 validation error for CodeExecutionResult">>))

\* the except clauses of the outer try of execute
except_clauses(p) ==
    IF p.kind # "raise" THEN p
    ELSE IF p.exc.cls = "CodeExecutionError"
    THEN Returned(CodeExecutionResult(FALSE, PyNone, PyStr(p.exc.message),
                                      p.exc.traceback_str))
    ELSE IF IsException(p.exc.cls)
    THEN Returned(CodeExecutionResult(FALSE, PyNone, PyStr(p.exc.message),
                      PyStr(<<"Traceback (most recent call last):", p.exc.cls>>)))
    ELSE p

\* a shutdown that does not wait for the worker
shutdown_without_wait(w) == TRUE

\* ThreadPoolExecutor.__exit__ is shutdown(wait=True): it joins the worker
\* thread, which ends only when the submitted call has ended
shutdown_done(w) == w = "done"

\* ------------------------------------------------------------------------
\* State
\* ------------------------------------------------------------------------
VARIABLES
    timeout_seconds, \* CodeExecutor.timeout_seconds
    threads,         \* the host threads that call execute
    pc,              \* where each host thread is in execute
    code,            \* the candidate source of the thread's current call
    calls,           \* calls the thread has started
    elapsed,         \* seconds the thread has waited in future.result
    pending,         \* return value or exception leaving the with block
    outcome,         \* what the call handed to its caller
    wpc,             \* where the worker of the call is in _execute_code
    stage,           \* the step of _execute_code the worker has reached
    env,             \* the globals dict of the call
    retval,          \* the value run() returned
    future,          \* the future of the call
    dicts,           \* heap of built-ins tables: SAFE_BUILTINS and one per call
    modattr,         \* an attribute of each module object
    validator,       \* a run of validate_code on a parsed tree, seen alone
    settings,        \* Settings of the NFLService
    service          \* where each request is in the NFLService and its route

vars == <<timeout_seconds, threads, pc, code, calls, elapsed, pending, outcome,
          wpc, stage, env, retval, future, dicts, modattr, validator,
          settings, service>>

callerVars == <<pc, code, calls, elapsed, pending, outcome>>
workerVars == <<wpc, stage, env, retval, future, dicts, modattr>>

InitialDicts == SafeBuiltinsId :> SAFE_BUILTINS
InitialModattr == [o \in ModuleObjects |-> "orig"]

InitCommon ==
    /\ timeout_seconds \in 1..MaxTimeout
    /\ pc = [c \in Callers |-> "idle"]
    /\ code = [c \in Callers |-> Plain("pass", "def", "pass", "dict")]
    /\ calls = [c \in Callers |-> 0]
    /\ elapsed = [c \in Callers |-> 0]
    /\ pending = [c \in Callers |-> Nothing]
    /\ outcome = [c \in Callers |-> Nothing]
    /\ wpc = [c \in Callers |-> "none"]
    /\ stage = [c \in Callers |-> "none"]
    /\ env = [c \in Callers |-> <<>>]
    /\ retval = [c \in Callers |-> PyNone]
    /\ future = [c \in Callers |-> NoFuture]
    /\ dicts = InitialDicts
    /\ modattr = InitialModattr

\* validate_code is not observed on its own
NoWalk == [state |-> "none", tree |-> Module(<<>>), errors |-> <<>>, outcome |-> Nothing]

\* ------------------------------------------------------------------------
\* NFLService: settings, results and responses
\* ------------------------------------------------------------------------
Settings(max_retries) ==
    [max_retries |-> max_retries, model |-> "gpt-5.1",
     fallback_model |-> "gpt-5.1-codex", summarization_model |-> "gpt-5-mini"]

\* code is None
NoCode == Candidate("None", FALSE, "pass", "absent", "pass", "none", "len", "math")

CodeGenResult(success, c, data, error, attempts) ==
    [success |-> success, code |-> c, data |-> data, error |-> error,
     attempts |-> attempts]

\* a response that keeps the default of used_fallback
NFLResponse_default_flag(response, code_generated, raw_data, attempts, used_fallback) ==
    [response |-> response, code_generated |-> code_generated,
     raw_data |-> raw_data, attempts |-> attempts, used_fallback |-> FALSE]

NFLResponse(response, code_generated, raw_data, attempts, used_fallback) ==
    [response |-> response, code_generated |-> code_generated,
     raw_data |-> raw_data, attempts |-> attempts, used_fallback |-> used_fallback]

NoResponse == NFLResponse(<<>>, NoCode, PyNone, 0, FALSE)

\* a response of the model: output items and output_text
LLMResponse(type, c, text) == [type |-> type, code |-> c, text |-> text]

\* a message of the list sent to the model: its role and its content, which
\* is code or text
Message(role, c, text) == [role |-> role, code |-> c, text |-> text]

\* _build_chat_messages: the system prompt, then the conversation
_build_chat_messages(chat_messages) ==
    <<Message("system", NoCode, <<"system prompt">>)>>
    \o (IF chat_messages = "nonempty"
        THEN <<Message("user", NoCode, <<"Question">>)>> ELSE <<>>)

\* _build_retry_messages: get_retry_prompt(error_traceback) is a text that
\* holds error_traceback
_build_retry_messages(base_messages, c, error_traceback) ==
    base_messages
    \o <<Message("assistant", c, <<>>),
         Message("user", NoCode, <<"get_retry_prompt">> \o error_traceback)>>

\* a request nobody has sent yet
IdleRequest ==
    [pc |-> "idle", api |-> "none", chat_messages |-> "none",
     round |-> 0, model |-> "", attempt |-> 0, code |-> NoCode, last_code |-> NoCode,
     result |-> CodeGenResult(FALSE, NoCode, PyNone, PyNone, 0),
     base_messages |-> <<>>, messages |-> <<>>,
     llm_calls |-> <<>>, answers |-> <<>>, executions |-> <<>>,
     summaries |-> <<>>, events |-> <<>>,
     text_response |-> PyNone, status |-> "", response |-> NoResponse,
     exc |-> NoException]

\* the service is not observed
NoService ==
    /\ settings = Settings(MaxRetries)
    /\ service = [r \in Requests |-> IdleRequest]

\* one host thread calls execute, one call after the other
Init == InitCommon /\ threads = {"t1"} /\ validator = NoWalk /\ NoService

\* the host issues calls from every thread in parallel
InitConc == InitCommon /\ threads = Callers /\ validator = NoWalk /\ NoService

\* the sources the host submits
Sources == IF Cardinality(threads) = 1 THEN Candidates ELSE ConcurrentCandidates

\* ------------------------------------------------------------------------
\* CodeExecutor.execute, on host thread c
\* ------------------------------------------------------------------------
RECURSIVE TotalCalls(_)
TotalCalls(S) ==
    IF S = {} THEN 0
    ELSE LET c == CHOOSE x \in S : TRUE IN calls[c] + TotalCalls(S \ {c})

\* the host calls execute(src)
execute(c, src) ==
    /\ c \in threads
    /\ pc[c] \in {"idle", "returned", "raised"}
    /\ TotalCalls(Callers) < MaxCalls
    /\ pc' = [pc EXCEPT ![c] = "validate"]
    /\ code' = [code EXCEPT ![c] = src]
    /\ calls' = [calls EXCEPT ![c] = @ + 1]
    /\ elapsed' = [elapsed EXCEPT ![c] = 0]
    /\ pending' = [pending EXCEPT ![c] = Nothing]
    /\ outcome' = [outcome EXCEPT ![c] = Nothing]
    /\ wpc' = [wpc EXCEPT ![c] = "none"]
    /\ stage' = [stage EXCEPT ![c] = "none"]
    /\ env' = [env EXCEPT ![c] = <<>>]
    /\ retval' = [retval EXCEPT ![c] = PyNone]
    /\ future' = [future EXCEPT ![c] = NoFuture]
    /\ UNCHANGED <<settings, validator, timeout_seconds, threads, dicts, modattr>>

\* lines 213-219: validate_code and the except clause around it
Validate(c) ==
    /\ pc[c] = "validate"
    /\ LET e == validate_code(code[c]) IN
       IF e = NoException
       THEN /\ pc' = [pc EXCEPT ![c] = "submit"]
            /\ UNCHANGED outcome
       ELSE IF e.cls = "CodeValidationError"
       THEN /\ pc' = [pc EXCEPT ![c] = "returned"]
            /\ outcome' = [outcome EXCEPT ![c] = validation_failure(e)]
       ELSE /\ pc' = [pc EXCEPT ![c] = "raised"]
            /\ outcome' = [outcome EXCEPT ![c] = Raised(e)]
    /\ UNCHANGED <<settings, service, validator, timeout_seconds, threads, code, calls, elapsed, pending>>
    /\ UNCHANGED workerVars

\* lines 222-223: the executor is created and _execute_code is submitted
Submit(c) ==
    /\ pc[c] = "submit"
    /\ pc' = [pc EXCEPT ![c] = "wait"]
    /\ wpc' = [wpc EXCEPT ![c] = "start"]
    /\ future' = [future EXCEPT ![c] = Future("pending", PyNone, NoException)]
    /\ UNCHANGED <<settings, service, validator, timeout_seconds, threads, code, calls, elapsed, pending, outcome,
                   stage, env, retval, dicts, modattr>>

\* a second passes while the thread waits in future.result(timeout)
Tick(c) ==
    /\ pc[c] = "wait"
    /\ elapsed[c] < timeout_seconds
    /\ elapsed' = [elapsed EXCEPT ![c] = @ + 1]
    /\ UNCHANGED <<settings, service, validator, timeout_seconds, threads, pc, code, calls, pending, outcome>>
    /\ UNCHANGED workerVars

\* lines 225-226: the future is finished, future.result returns or raises
WaitResult(c) ==
    /\ pc[c] = "wait"
    /\ future[c].state = "finished"
    /\ pending' = [pending EXCEPT ![c] = future_result(future[c], timeout_seconds)]
    /\ pc' = [pc EXCEPT ![c] = "exit_with"]
    /\ UNCHANGED <<settings, service, validator, timeout_seconds, threads, code, calls, elapsed, outcome>>
    /\ UNCHANGED workerVars

\* lines 227-231: the deadline passes before the future is finished
WaitTimeout(c) ==
    /\ pc[c] = "wait"
    /\ elapsed[c] = timeout_seconds
    /\ future[c].state # "finished"
    /\ pending' = [pending EXCEPT ![c] = Returned(TimeoutFailure(timeout_seconds))]
    /\ pc' = [pc EXCEPT ![c] = "exit_with"]
    /\ UNCHANGED <<settings, service, validator, timeout_seconds, threads, code, calls, elapsed, outcome>>
    /\ UNCHANGED workerVars

\* leaving the with block with what the future holds by then
ExitWith_rereading_future(c) ==
    /\ pc[c] = "exit_with"
    /\ shutdown_done(wpc[c])
    /\ LET o == except_clauses(future_result(future[c], timeout_seconds)) IN
       /\ outcome' = [outcome EXCEPT ![c] = o]
       /\ pc' = [pc EXCEPT ![c] = IF o.kind = "return" THEN "returned" ELSE "raised"]
    /\ UNCHANGED <<settings, service, validator, timeout_seconds, threads, code, calls, elapsed, pending>>
    /\ UNCHANGED workerVars

\* line 222 and lines 232-246: the with block is left, which shuts the
\* executor down, then the return value is returned or the exception handled
ExitWith(c) ==
    /\ pc[c] = "exit_with"
    /\ shutdown_done(wpc[c])
    /\ LET o == except_clauses(pending[c]) IN
       /\ outcome' = [outcome EXCEPT ![c] = o]
       /\ pc' = [pc EXCEPT ![c] = IF o.kind = "return" THEN "returned" ELSE "raised"]
    /\ UNCHANGED <<settings, service, validator, timeout_seconds, threads, code, calls, elapsed, pending>>
    /\ UNCHANGED workerVars

\* ------------------------------------------------------------------------
\* _execute_code, on the worker thread of the call of host thread c
\* ------------------------------------------------------------------------
\* the worker ends the call with exception e
Fail(c, e, at) ==
    /\ future' = [future EXCEPT ![c] = Future("finished", PyNone, e)]
    /\ wpc' = [wpc EXCEPT ![c] = "done"]
    /\ stage' = [stage EXCEPT ![c] = at]

\* line 192
WorkerCreateEnv(c) ==
    /\ wpc[c] = "start"
    /\ LET e == _create_execution_environment(c, calls[c], dicts) IN
       /\ env' = [env EXCEPT ![c] = e.g]
       /\ dicts' = e.d
    /\ wpc' = [wpc EXCEPT ![c] = "exec"]
    /\ stage' = [stage EXCEPT ![c] = "env"]
    /\ UNCHANGED <<settings, service, validator, timeout_seconds, threads, retval, future, modattr>>
    /\ UNCHANGED callerVars

\* line 193: exec(code, env) runs the top-level statements, the last of
\* which binds run; a top level that loops never leaves this step
WorkerExec(c) ==
    /\ wpc[c] = "exec"
    /\ code[c].top # "loop"
    /\ LET r == ExecStmt(code[c].top, code[c], env[c], dicts, modattr)
           bound == bind_run(code[c], r.g)
       IN
       /\ dicts' = r.d
       /\ modattr' = r.m
       /\ IF r.exc # NoException
          THEN /\ Fail(c, r.exc, "top")
               /\ env' = [env EXCEPT ![c] = r.g]
          ELSE /\ env' = [env EXCEPT ![c] = bound]
               /\ wpc' = [wpc EXCEPT ![c] = "check"]
               /\ stage' = [stage EXCEPT ![c] = "top"]
               /\ UNCHANGED future
    /\ UNCHANGED <<settings, service, validator, timeout_seconds, threads, retval>>
    /\ UNCHANGED callerVars

\* lines 195-198
WorkerCheckRun(c) ==
    /\ wpc[c] = "check"
    /\ IF check_run(env[c]) # NoException
       THEN Fail(c, check_run(env[c]), "entry")
       ELSE /\ wpc' = [wpc EXCEPT ![c] = "run"]
            /\ stage' = [stage EXCEPT ![c] = "entry"]
            /\ UNCHANGED future
    /\ UNCHANGED <<settings, service, validator, timeout_seconds, threads, env, retval, dicts, modattr>>
    /\ UNCHANGED callerVars

\* line 200: env["run"]() runs the body and the return expression; a body
\* that loops never leaves this step
WorkerRun(c) ==
    /\ wpc[c] = "run"
    /\ code[c].body # "loop"
    /\ LET r == ExecStmt(code[c].body, code[c], env[c], dicts, modattr)
           v == EvalRet(code[c], r.g, r.d, r.m)
       IN
       /\ env' = [env EXCEPT ![c] = r.g]
       /\ dicts' = r.d
       /\ modattr' = r.m
       /\ IF r.exc # NoException
          THEN Fail(c, r.exc, "run") /\ UNCHANGED retval
          ELSE IF v.exc # NoException
          THEN Fail(c, v.exc, "run") /\ UNCHANGED retval
          ELSE /\ retval' = [retval EXCEPT ![c] = v.val]
               /\ wpc' = [wpc EXCEPT ![c] = "dumps"]
               /\ stage' = [stage EXCEPT ![c] = "run"]
               /\ UNCHANGED future
    /\ UNCHANGED <<settings, service, validator, timeout_seconds, threads>>
    /\ UNCHANGED callerVars

\* lines 202-209
WorkerDumps(c) ==
    /\ wpc[c] = "dumps"
    /\ LET e == check_serializable(retval[c]) IN
       IF e # NoException
       THEN Fail(c, e, "dumps")
       ELSE /\ future' = [future EXCEPT ![c] = Future("finished", retval[c], NoException)]
            /\ wpc' = [wpc EXCEPT ![c] = "done"]
            /\ stage' = [stage EXCEPT ![c] = "returned"]
    /\ UNCHANGED <<settings, service, validator, timeout_seconds, threads, env, retval, dicts, modattr>>
    /\ UNCHANGED callerVars

Next ==
    \/ \E c \in Callers, src \in Sources : execute(c, src) /\ UNCHANGED service
    \/ \E c \in Callers : Validate(c)
    \/ \E c \in Callers : Submit(c)
    \/ \E c \in Callers : Tick(c)
    \/ \E c \in Callers : WaitResult(c)
    \/ \E c \in Callers : WaitTimeout(c)
    \/ \E c \in Callers : ExitWith(c)
    \/ \E c \in Callers : WorkerCreateEnv(c)
    \/ \E c \in Callers : WorkerExec(c)
    \/ \E c \in Callers : WorkerCheckRun(c)
    \/ \E c \in Callers : WorkerRun(c)
    \/ \E c \in Callers : WorkerDumps(c)

Spec == Init /\ [][Next]_vars

SpecConc == InitConc /\ [][Next]_vars

\* the host thread and the worker thread are scheduled: a step that stays
\* enabled is eventually taken
HostStep(c) ==
    Validate(c) \/ Submit(c) \/ Tick(c) \/ WaitResult(c) \/ WaitTimeout(c) \/ ExitWith(c)

WorkerStep(c) ==
    WorkerCreateEnv(c) \/ WorkerExec(c) \/ WorkerCheckRun(c) \/ WorkerRun(c)
    \/ WorkerDumps(c)

FairSpec ==
    Spec /\ \A c \in Callers : WF_vars(HostStep(c)) /\ WF_vars(WorkerStep(c))

\* ------------------------------------------------------------------------
\* validate_code on generated syntax trees
\* ------------------------------------------------------------------------
\* dotted module names of the generated import statements
ImportNames ==
    {<<n>> : n \in ALLOWED_IMPORTS}
    \cup {<<"os">>, <<"sys">>, <<"subprocess">>, <<"mathx">>, <<"os", "path">>,
          <<"os", "math">>, <<"polars", "selectors">>}

CallNames == FORBIDDEN_CALLS \cup {"len", "print"}
AttrNames == FORBIDDEN_ATTRIBUTES \cup {"pi", "eval"}

\* the innermost expressions: a name, a call of a bare name, a method-style
\* call, an attribute access, a call whose target is a subscript
Atoms ==
    {Name("x"), Name("eval")}
    \cup {Call(Name(n), <<>>) : n \in CallNames}
    \cup {Call(Attribute(Name("x"), n), <<>>) : n \in CallNames}
    \cup {Attribute(Name("x"), a) : a \in AttrNames}
    \cup {Call(Subscript(Name(n)), <<>>) : n \in {"eval", "len"}}

\* an expression with e nested in it: e as the value of an attribute access,
\* as the target of a call, as an argument of a call, as the value of a
\* subscript, as the target of an assignment
Wrappers(e) ==
    {Attribute(e, "pi"), Attribute(e, "__class__"), Call(e, <<>>),
     Call(Name("print"), <<e>>), Call(Name("eval"), <<e>>), Subscript(e),
     Assign(e, Name("x"))}

RECURSIVE Exprs(_)
Exprs(d) ==
    IF d = 0 THEN Atoms
    ELSE Exprs(d - 1) \cup UNION {Wrappers(e) : e \in Exprs(d - 1)}

\* the trees ast.parse hands to the validator
Trees ==
    {Module(<<Stmt(<<e>>)>>) : e \in Exprs(MaxNesting)}
    \cup {Module(<<Import(<<n>>)>>) : n \in ImportNames}
    \cup {Module(<<ImportFrom(n)>>) : n \in ImportNames \cup {<<>>}}
    \cup {Module(<<Import(<<n, m>>)>>) :
            n \in {<<"os">>, <<"math">>}, m \in {<<"sys">>, <<"json">>}}
    \cup {Module(<<Import(<<n>>), Stmt(<<a>>), Stmt(<<b>>)>>) :
            n \in {<<"os">>, <<"math">>},
            a \in {Call(Name("eval"), <<>>), Call(Name("len"), <<>>)},
            b \in {Attribute(Name("x"), "__globals__"), Attribute(Name("x"), "pi")}}
    \cup {Module(<<Node("FunctionDef", "run", <<>>, <<ImportFrom(n), Stmt(<<a>>)>>)>>) :
            n \in {<<"os">>, <<"math">>},
            a \in {Call(Attribute(Name("x"), "open"), <<>>), Name("x")}}

\* validate_code is run on a tree that parsed, nothing else happens
InitValidator ==
    /\ InitCommon
    /\ threads = {}
    /\ NoService
    /\ validator \in {[state |-> "parsed", tree |-> t, errors |-> <<>>,
                        outcome |-> Nothing] : t \in Trees}

\* lines 159-160: the validator walks the tree
Walk ==
    /\ validator.state = "parsed"
    /\ validator' = [validator EXCEPT !.state = "walked",
                                      !.errors = ASTValidator(validator.tree)]
    /\ UNCHANGED <<settings, service, timeout_seconds, threads>>
    /\ UNCHANGED callerVars
    /\ UNCHANGED workerVars

\* lines 162-166 and 215-219: validate_code raises for the errors, and execute
\* returns the failure
Report ==
    /\ validator.state = "walked"
    /\ LET e == validation_error(validator.errors) IN
       validator' = [validator EXCEPT
                        !.state = IF e = NoException THEN "accepted" ELSE "rejected",
                        !.outcome = IF e = NoException THEN Nothing
                                    ELSE validation_failure(e)]
    /\ UNCHANGED <<settings, service, timeout_seconds, threads>>
    /\ UNCHANGED callerVars
    /\ UNCHANGED workerVars

NextValidator == Walk \/ Report

SpecValidator == InitValidator /\ [][NextValidator]_vars

\* ------------------------------------------------------------------------
\* NFLService and the /nfl routes, on the thread "t1" of the event loop
\* ------------------------------------------------------------------------
\* the sources the model answers with
ServiceCandidates ==
    {Plain("pass", "def", "pass", "dict"),
     Plain("pass", "def", "raise_zerodiv", "dict"),
     Plain("pass", "def", "raise_stopiter", "dict"),
     Plain("pass", "def", "raise_sysexit", "dict"),
     Plain("import_os", "def", "pass", "dict")}

\* what the model answers a call with: a run_nflreadpy_code call, a call of
\* another tool, or text
LLMResponses ==
    {LLMResponse("function_call", c, <<>>) : c \in ServiceCandidates}
    \cup {LLMResponse("other_call", NoCode, <<>>),
          LLMResponse("text", NoCode, <<"Direct answer without code">>)}

\* what the model answers when two requests are served at the same time
ConcurrentResponses ==
    {LLMResponse("function_call", Plain("pass", "def", "pass", "dict"), <<>>),
     LLMResponse("function_call", Plain("pass", "def", "raise_sysexit", "dict"), <<>>),
     LLMResponse("text", NoCode, <<"Direct answer without code">>)}

Responses ==
    IF Cardinality(DOMAIN service) = 1 THEN LLMResponses ELSE ConcurrentResponses

\* NFLService._extract_function_call: the code, NoCode if there is no
\* run_nflreadpy_code call
_extract_function_call(response) ==
    IF response.type = "function_call" THEN response.code ELSE NoCode

_extract_text_response(response) == response.text

_call_llm_default(model) == settings.model

\* _call_llm: the model named in the request
_call_llm(model) == IF model # "" THEN model ELSE settings.model

\* the event loop runs a coroutine only while no coroutine is inside the
\* synchronous call of execute
LoopFree == \A q \in DOMAIN service : service[q].pc \notin {"execute", "s_execute"}

\* a request without the checks for an empty list of messages
Request_without_empty_check(r, api, chat_messages) ==
    /\ service[r].pc = "idle"
    /\ r = "r2" => service["r1"].pc # "idle"
    /\ LoopFree
    /\ service' = [service EXCEPT ![r] =
          [IdleRequest EXCEPT !.pc = "generate", !.api = api,
                              !.chat_messages = chat_messages, !.round = 1,
                              !.base_messages = _build_chat_messages(chat_messages),
                              !.messages = _build_chat_messages(chat_messages)]]
    /\ UNCHANGED <<settings, validator, timeout_seconds, threads>>
    /\ UNCHANGED callerVars
    /\ UNCHANGED workerVars

\* the /nfl/chat route, /nfl/process route and direct calls of process_chat:
\* up to the first call of _generate_and_execute
Request(r, api, chat_messages) ==
    /\ service[r].pc = "idle"
    /\ r = "r2" => service["r1"].pc # "idle"
    /\ LoopFree
    /\ service' = [service EXCEPT ![r] =
          IF api = "/nfl/chat" /\ chat_messages = "empty"
          THEN [IdleRequest EXCEPT !.pc = "http_error", !.api = api,
                     !.chat_messages = chat_messages, !.status = "400",
                     !.exc = Exc("HTTPException", <<"No messages provided">>)]
          ELSE IF api = "process_chat" /\ chat_messages = "empty"
          THEN [IdleRequest EXCEPT !.pc = "returned", !.api = api,
                     !.chat_messages = chat_messages,
                     !.response = NFLResponse(<<"No messages provided">>, NoCode,
                                              PyNone, 0, FALSE)]
          ELSE [IdleRequest EXCEPT !.pc = "generate", !.api = api,
                     !.chat_messages = chat_messages, !.round = 1,
                     !.base_messages = _build_chat_messages(chat_messages),
                     !.messages = _build_chat_messages(chat_messages)]]
    /\ UNCHANGED <<settings, validator, timeout_seconds, threads>>
    /\ UNCHANGED callerVars
    /\ UNCHANGED workerVars

\* the model calls all requests together may make: one less when two
\* requests are served
ModelCallBudget ==
    IF Cardinality(DOMAIN service) = 1 THEN MaxModelCalls ELSE MaxModelCalls - 1

RECURSIVE TotalModelCalls(_)
TotalModelCalls(S) ==
    IF S = {} THEN 0
    ELSE LET r == CHOOSE x \in S : TRUE IN
         Len(service[r].llm_calls) + TotalModelCalls(S \ {r})

\* _generate_and_execute, the head of the while loop: the model is called,
\* or the loop is left by its condition
Generate(r) ==
    /\ service[r].pc = "generate"
    /\ LoopFree
    /\ service[r].attempt <= settings.max_retries =>
          TotalModelCalls(DOMAIN service) < ModelCallBudget
    /\ LET q == service[r] IN
       service' = [service EXCEPT ![r] =
          IF q.attempt <= settings.max_retries
          THEN [q EXCEPT !.pc = "call_llm",
                         !.llm_calls = Append(@, [round |-> q.round,
                                                  model |-> _call_llm(q.model),
                                                  messages |-> q.messages])]
          ELSE [q EXCEPT !.pc = "round_done",
                         !.result = CodeGenResult(FALSE, q.last_code, PyNone,
                              PyStr(<<"Unexpected error in processing loop">>),
                              q.attempt)]]
    /\ UNCHANGED <<settings, validator, timeout_seconds, threads>>
    /\ UNCHANGED callerVars
    /\ UNCHANGED workerVars

\* a text answer that is retried while retries remain
TextAnswer_retrying(r, response) ==
    /\ service[r].pc = "call_llm"
    /\ LoopFree
    /\ _extract_function_call(response) = NoCode
    /\ LET q == service[r] IN
       service' = [service EXCEPT ![r] =
          IF q.attempt + 1 > settings.max_retries
          THEN [q EXCEPT !.pc = "round_done",
                    !.answers = Append(@, response),
                    !.text_response = PyStr(_extract_text_response(response)),
                    !.result = CodeGenResult(FALSE, NoCode, PyNone,
                         PyStr(<<"Model responded with text instead of code:">>
                               \o _extract_text_response(response)),
                         q.attempt + 1)]
          ELSE [q EXCEPT !.pc = "generate", !.attempt = q.attempt + 1,
                    !.answers = Append(@, response),
                    !.text_response = PyStr(_extract_text_response(response))]]
    /\ UNCHANGED <<settings, validator, timeout_seconds, threads>>
    /\ UNCHANGED callerVars
    /\ UNCHANGED workerVars

\* the model has answered without a run_nflreadpy_code call
TextAnswer(r, response) ==
    /\ service[r].pc = "call_llm"
    /\ LoopFree
    /\ _extract_function_call(response) = NoCode
    /\ LET q == service[r] IN
       service' = [service EXCEPT ![r] =
          [q EXCEPT !.pc = "round_done",
                    !.answers = Append(@, response),
                    !.text_response = PyStr(_extract_text_response(response)),
                    !.result = CodeGenResult(FALSE, NoCode, PyNone,
                         PyStr(<<"Model responded with text instead of code:">>
                               \o _extract_text_response(response)),
                         q.attempt + 1)]]
    /\ UNCHANGED <<settings, validator, timeout_seconds, threads>>
    /\ UNCHANGED callerVars
    /\ UNCHANGED workerVars

\* the model has answered with code: execute(code) is called on the thread
\* of the event loop
CodeAnswer(r, response) ==
    /\ service[r].pc = "call_llm"
    /\ LoopFree
    /\ _extract_function_call(response) # NoCode
    /\ execute("t1", _extract_function_call(response))
    /\ service' = [service EXCEPT ![r] =
          [@ EXCEPT !.pc = "execute",
                    !.answers = Append(@, response),
                    !.code = _extract_function_call(response),
                    !.last_code = _extract_function_call(response)]]

error_info_unknown(execution_result) == <<"Unknown error">>

\* lines 207-210: the feedback text of a failed execution
error_info(execution_result) ==
    (IF execution_result.error = PyNone \/ execution_result.error.v = <<>>
     THEN <<"Unknown error">> ELSE execution_result.error.v)
    \o (IF execution_result.traceback = PyNone \/ execution_result.traceback.v = <<>>
        THEN <<>> ELSE execution_result.traceback.v)

\* the loop body without the return of lines 198-205
ExecuteReturns_without_return(r) ==
    /\ service[r].pc = "execute"
    /\ pc["t1"] = "returned"
    /\ LET q == service[r]
           execution_result == outcome["t1"].result
           done == [q EXCEPT !.executions =
                        Append(@, [round |-> q.round, code |-> q.code,
                                   success |-> execution_result.success,
                                   data |-> execution_result.data,
                                   error |-> execution_result.error,
                                   traceback |-> execution_result.traceback])]
       IN
       service' = [service EXCEPT ![r] =
          IF q.attempt + 1 > settings.max_retries
          THEN [done EXCEPT !.pc = "round_done", !.attempt = q.attempt + 1,
                            !.result = CodeGenResult(execution_result.success, q.code,
                                 execution_result.data, PyNone, q.attempt + 1)]
          ELSE [done EXCEPT !.pc = "generate", !.attempt = q.attempt + 1,
                            !.messages = _build_retry_messages(q.base_messages,
                                 q.code, error_info(execution_result))]]
    /\ UNCHANGED <<settings, validator, timeout_seconds, threads>>
    /\ UNCHANGED callerVars
    /\ UNCHANGED workerVars

\* the loop body without the return of lines 213-220
ExecuteReturns_without_exhaustion(r) ==
    /\ service[r].pc = "execute"
    /\ pc["t1"] = "returned"
    /\ LET q == service[r]
           execution_result == outcome["t1"].result
           done == [q EXCEPT !.executions =
                        Append(@, [round |-> q.round, code |-> q.code,
                                   success |-> execution_result.success,
                                   data |-> execution_result.data,
                                   error |-> execution_result.error,
                                   traceback |-> execution_result.traceback])]
       IN
       service' = [service EXCEPT ![r] =
          IF execution_result.success
          THEN [done EXCEPT !.pc = "round_done",
                            !.result = CodeGenResult(TRUE, q.code,
                                 execution_result.data, PyNone, q.attempt + 1)]
          ELSE [done EXCEPT !.pc = "generate", !.attempt = q.attempt + 1,
                            !.messages = _build_retry_messages(q.base_messages,
                                 q.code, error_info(execution_result))]]
    /\ UNCHANGED <<settings, validator, timeout_seconds, threads>>
    /\ UNCHANGED callerVars
    /\ UNCHANGED workerVars

\* the loop body with the retry messages appended to the messages sent before
ExecuteReturns_accumulating(r) ==
    /\ service[r].pc = "execute"
    /\ pc["t1"] = "returned"
    /\ LET q == service[r]
           execution_result == outcome["t1"].result
           done == [q EXCEPT !.executions =
                        Append(@, [round |-> q.round, code |-> q.code,
                                   success |-> execution_result.success,
                                   data |-> execution_result.data,
                                   error |-> execution_result.error,
                                   traceback |-> execution_result.traceback])]
       IN
       service' = [service EXCEPT ![r] =
          IF execution_result.success
          THEN [done EXCEPT !.pc = "round_done",
                            !.result = CodeGenResult(TRUE, q.code,
                                 execution_result.data, PyNone, q.attempt + 1)]
          ELSE IF q.attempt + 1 > settings.max_retries
          THEN [done EXCEPT !.pc = "round_done", !.attempt = q.attempt + 1,
                            !.result = CodeGenResult(FALSE, q.code, PyNone,
                                 PyStr(error_info(execution_result)), q.attempt + 1)]
          ELSE [done EXCEPT !.pc = "generate", !.attempt = q.attempt + 1,
                            !.messages = _build_retry_messages(q.messages,
                                 q.code, error_info(execution_result))]]
    /\ UNCHANGED <<settings, validator, timeout_seconds, threads>>
    /\ UNCHANGED callerVars
    /\ UNCHANGED workerVars

\* execute has returned: the rest of the loop body
ExecuteReturns(r) ==
    /\ service[r].pc = "execute"
    /\ pc["t1"] = "returned"
    /\ LET q == service[r]
           execution_result == outcome["t1"].result
           done == [q EXCEPT !.executions =
                        Append(@, [round |-> q.round, code |-> q.code,
                                   success |-> execution_result.success,
                                   data |-> execution_result.data,
                                   error |-> execution_result.error,
                                   traceback |-> execution_result.traceback])]
       IN
       service' = [service EXCEPT ![r] =
          IF execution_result.success
          THEN [done EXCEPT !.pc = "round_done",
                            !.result = CodeGenResult(TRUE, q.code,
                                 execution_result.data, PyNone, q.attempt + 1)]
          ELSE IF q.attempt + 1 > settings.max_retries
          THEN [done EXCEPT !.pc = "round_done", !.attempt = q.attempt + 1,
                            !.result = CodeGenResult(FALSE, q.code, PyNone,
                                 PyStr(error_info(execution_result)), q.attempt + 1)]
          ELSE [done EXCEPT !.pc = "generate", !.attempt = q.attempt + 1,
                            !.messages = _build_retry_messages(q.base_messages,
                                 q.code, error_info(execution_result))]]
    /\ UNCHANGED <<settings, validator, timeout_seconds, threads>>
    /\ UNCHANGED callerVars
    /\ UNCHANGED workerVars

\* execute has raised: the exception leaves _generate_and_execute and the
\* service; the route turns an Exception into status 500
ExecuteRaises(r) ==
    /\ service[r].pc = "execute"
    /\ pc["t1"] = "raised"
    /\ LET q == service[r]
           e == outcome["t1"].exc
       IN
       service' = [service EXCEPT ![r] =
          IF q.api \in {"/nfl/chat", "/nfl/process"} /\ IsException(e.cls)
          THEN [q EXCEPT !.pc = "http_error", !.status = "500",
                         !.exc = Exc("HTTPException", e.message)]
          ELSE [q EXCEPT !.pc = "raised", !.exc = e]]
    /\ UNCHANGED <<settings, validator, timeout_seconds, threads>>
    /\ UNCHANGED callerVars
    /\ UNCHANGED workerVars

\* the failure response at the end of process and process_chat
failure_response(result) ==
    NFLResponse(<<"Failed to generate working code:">>
                    \o (IF result.error = PyNone THEN <<"None">> ELSE result.error.v),
                result.code, PyNone, result.attempts, FALSE)

\* _generate_and_execute has returned to process or process_chat
RoundDone(r) ==
    /\ service[r].pc = "round_done"
    /\ LoopFree
    /\ LET q == service[r] IN
       service' = [service EXCEPT ![r] =
          IF q.result.success
          THEN [q EXCEPT !.pc = "summarize"]
          ELSE [q EXCEPT !.pc = "returned", !.status = "200",
                         !.response = failure_response(q.result)]]
    /\ UNCHANGED <<settings, validator, timeout_seconds, threads>>
    /\ UNCHANGED callerVars
    /\ UNCHANGED workerVars

\* _summarize_result has returned (is_valid, summary)
Summarized(r, is_valid, summary) ==
    /\ service[r].pc = "summarize"
    /\ LoopFree
    /\ LET q == service[r]
           told == [q EXCEPT !.summaries = Append(@, [round |-> q.round,
                                                      is_valid |-> is_valid])]
       IN
       service' = [service EXCEPT ![r] =
          IF q.round = 1 /\ is_valid
          THEN [told EXCEPT !.pc = "returned", !.status = "200",
                            !.response = NFLResponse(summary, q.result.code,
                                 q.result.data, q.result.attempts, FALSE)]
          ELSE IF q.round = 1
          THEN [told EXCEPT !.pc = "generate", !.round = 2, !.attempt = 0,
                            !.model = settings.fallback_model,
                            !.messages = q.base_messages,
                            !.code = NoCode, !.last_code = NoCode]
          ELSE [told EXCEPT !.pc = "returned", !.status = "200",
                            !.response = NFLResponse(summary, q.result.code,
                                 q.result.data, q.result.attempts, TRUE)]]
    /\ UNCHANGED <<settings, validator, timeout_seconds, threads>>
    /\ UNCHANGED callerVars
    /\ UNCHANGED workerVars

\* the steps of execute and of its worker, for the call a request has made
ExecutorStep ==
    /\ \E r \in DOMAIN service : service[r].pc \in {"execute", "s_execute"}
    /\ HostStep("t1") \/ WorkerStep("t1")

\* the requests: the /nfl/chat route with and without messages, process_chat
\* of the unit test with no messages, process with a question
Arrivals ==
    {<<"/nfl/chat", "empty">>, <<"/nfl/chat", "nonempty">>,
     <<"process_chat", "empty">>, <<"process", "nonempty">>}

InitService ==
    /\ InitCommon
    /\ threads = {"t1"}
    /\ validator = NoWalk
    /\ settings \in {Settings(n) : n \in 0..MaxRetries}
    /\ service = [r \in {"r1"} |-> IdleRequest]

\* two requests are served by the event loop at the same time
InitServiceConc ==
    /\ InitCommon
    /\ threads = {"t1"}
    /\ validator = NoWalk
    /\ settings \in {Settings(n) : n \in 0..(MaxRetries - 1)}
    /\ service = [r \in Requests |-> IdleRequest]

NextService ==
    \/ \E r \in DOMAIN service, a \in Arrivals : Request(r, a[1], a[2])
    \/ \E r \in DOMAIN service : Generate(r)
    \/ \E r \in DOMAIN service, response \in Responses : TextAnswer(r, response)
    \/ \E r \in DOMAIN service, response \in Responses : CodeAnswer(r, response)
    \/ ExecutorStep
    \/ \E r \in DOMAIN service : ExecuteReturns(r)
    \/ \E r \in DOMAIN service : ExecuteRaises(r)
    \/ \E r \in DOMAIN service : RoundDone(r)
    \/ \E r \in DOMAIN service, is_valid \in BOOLEAN,
         summary \in {<<"The team scored 42 points">>} :
          Summarized(r, is_valid, summary)

SpecService == InitService /\ [][NextService]_vars

SpecServiceConc == InitServiceConc /\ [][NextService]_vars

\* ------------------------------------------------------------------------
\* NFLService.process_chat_streaming and the /nfl/chat/stream route
\* ------------------------------------------------------------------------
\* schemas.StreamEvent: attempt 0 stands for no attempt, data is <<>> or
\* holds one NFLResponse
StreamEvent(event, step, message, attempt, data) ==
    [event |-> event, step |-> step, message |-> message, attempt |-> attempt,
     data |-> data]

\* lines 507-516: the last event when no code worked, built from the result
\* of the primary loop
failure_event(result) ==
    StreamEvent("error", "generating", <<"Unable to find the data you requested">>, 0,
                <<failure_response(result)>>)

\* the route with and without messages, and the generator called directly
StreamArrivals ==
    {<<"/nfl/chat/stream", "empty">>, <<"/nfl/chat/stream", "nonempty">>,
     <<"process_chat_streaming", "empty">>, <<"process_chat_streaming", "nonempty">>}

\* a stream that starts without the 'analyzing' event
StreamRequest_without_analyzing(r, api, chat_messages) ==
    /\ service[r].pc = "idle"
    /\ r = "r2" => service["r1"].pc # "idle"
    /\ LoopFree
    /\ service' = [service EXCEPT ![r] =
          IF api = "/nfl/chat/stream" /\ chat_messages = "empty"
          THEN [IdleRequest EXCEPT !.pc = "http_error", !.api = api,
                     !.chat_messages = chat_messages, !.status = "400",
                     !.exc = Exc("HTTPException", <<"No messages provided">>)]
          ELSE IF chat_messages = "empty"
          THEN [IdleRequest EXCEPT !.pc = "stream_done", !.api = api,
                     !.chat_messages = chat_messages,
                     !.events = <<StreamEvent("error", "analyzing",
                                              <<"No messages provided">>, 0, <<>>)>>]
          ELSE [IdleRequest EXCEPT !.pc = "s_generate", !.api = api,
                     !.chat_messages = chat_messages, !.round = 1,
                     !.base_messages = _build_chat_messages(chat_messages),
                     !.messages = _build_chat_messages(chat_messages)]]
    /\ UNCHANGED <<settings, validator, timeout_seconds, threads>>
    /\ UNCHANGED callerVars
    /\ UNCHANGED workerVars

\* the /nfl/chat/stream route and process_chat_streaming up to the head of
\* the primary loop
StreamRequest(r, api, chat_messages) ==
    /\ service[r].pc = "idle"
    /\ r = "r2" => service["r1"].pc # "idle"
    /\ LoopFree
    /\ service' = [service EXCEPT ![r] =
          IF api = "/nfl/chat/stream" /\ chat_messages = "empty"
          THEN [IdleRequest EXCEPT !.pc = "http_error", !.api = api,
                     !.chat_messages = chat_messages, !.status = "400",
                     !.exc = Exc("HTTPException", <<"No messages provided">>)]
          ELSE IF chat_messages = "empty"
          THEN [IdleRequest EXCEPT !.pc = "stream_done", !.api = api,
                     !.chat_messages = chat_messages,
                     !.events = <<StreamEvent("error", "analyzing",
                                              <<"No messages provided">>, 0, <<>>)>>]
          ELSE [IdleRequest EXCEPT !.pc = "s_generate", !.api = api,
                     !.chat_messages = chat_messages, !.round = 1,
                     !.base_messages = _build_chat_messages(chat_messages),
                     !.messages = _build_chat_messages(chat_messages),
                     !.events = <<StreamEvent("status", "analyzing",
                                              <<"Analyzing your question">>, 0, <<>>)>>]]
    /\ UNCHANGED <<settings, validator, timeout_seconds, threads>>
    /\ UNCHANGED callerVars
    /\ UNCHANGED workerVars

\* the head of the primary loop (round 1) and of the fallback loop (round 2):
\* the 'generating' event and the call of the model, or the loop is left by
\* its condition
StreamGenerate(r) ==
    /\ service[r].pc = "s_generate"
    /\ LoopFree
    /\ service[r].attempt <= settings.max_retries =>
          TotalModelCalls(DOMAIN service) < ModelCallBudget
    /\ LET q == service[r]
           unexpected == CodeGenResult(FALSE, q.last_code, PyNone,
                              PyStr(<<"Unexpected error in processing loop">>),
                              q.attempt)
       IN
       service' = [service EXCEPT ![r] =
          IF q.attempt <= settings.max_retries
          THEN [q EXCEPT !.pc = "s_call_llm",
                         !.events = Append(@, StreamEvent("status", "generating",
                              <<"Generating code">>, q.attempt + 1, <<>>)),
                         !.llm_calls = Append(@, [round |-> q.round,
                                                  model |-> _call_llm(q.model),
                                                  messages |-> q.messages])]
          ELSE IF q.round = 1
          THEN [q EXCEPT !.pc = "stream_done", !.result = unexpected,
                         !.events = Append(@, failure_event(unexpected))]
          ELSE [q EXCEPT !.pc = "stream_done",
                         !.events = Append(@, failure_event(q.result))]]
    /\ UNCHANGED <<settings, validator, timeout_seconds, threads>>
    /\ UNCHANGED callerVars
    /\ UNCHANGED workerVars

\* the model has answered without a run_nflreadpy_code call: the error event
\* of the primary loop, or the break of the fallback loop
StreamTextAnswer(r, response) ==
    /\ service[r].pc = "s_call_llm"
    /\ LoopFree
    /\ _extract_function_call(response) = NoCode
    /\ LET q == service[r] IN
       service' = [service EXCEPT ![r] =
          IF q.round = 1
          THEN [q EXCEPT !.pc = "stream_done",
                    !.answers = Append(@, response),
                    !.text_response = PyStr(_extract_text_response(response)),
                    !.events = Append(@, StreamEvent("error", "generating",
                         <<"Model responded with text instead of code">>, 0, <<>>))]
          ELSE [q EXCEPT !.pc = "stream_done",
                    !.answers = Append(@, response),
                    !.events = Append(@, failure_event(q.result))]]
    /\ UNCHANGED <<settings, validator, timeout_seconds, threads>>
    /\ UNCHANGED callerVars
    /\ UNCHANGED workerVars

\* the model has answered with code: the 'executing' event, then
\* execute(code) is called on the thread of the event loop
StreamCodeAnswer(r, response) ==
    /\ service[r].pc = "s_call_llm"
    /\ LoopFree
    /\ _extract_function_call(response) # NoCode
    /\ execute("t1", _extract_function_call(response))
    /\ service' = [service EXCEPT ![r] =
          [@ EXCEPT !.pc = "s_execute",
                    !.answers = Append(@, response),
                    !.events = Append(@, StreamEvent("status", "executing",
                         <<"Running the analysis">>, service[r].attempt + 1, <<>>)),
                    !.code = _extract_function_call(response),
                    !.last_code = IF service[r].round = 1
                                  THEN _extract_function_call(response) ELSE @]]

\* a loop body that announces a retry after the last failed attempt too
StreamExecuteReturns_always_retrying(r) ==
    /\ service[r].pc = "s_execute"
    /\ pc["t1"] = "returned"
    /\ LET q == service[r]
           execution_result == outcome["t1"].result
           done == [q EXCEPT !.executions =
                        Append(@, [round |-> q.round, code |-> q.code,
                                   success |-> execution_result.success,
                                   data |-> execution_result.data,
                                   error |-> execution_result.error,
                                   traceback |-> execution_result.traceback])]
           failed == CodeGenResult(FALSE, q.code, PyNone,
                                   PyStr(error_info(execution_result)), q.attempt + 1)
           retrying == StreamEvent("status", "retrying", <<"Trying another approach">>,
                                   q.attempt + 2, <<>>)
       IN
       service' = [service EXCEPT ![r] =
          IF execution_result.success
          THEN [done EXCEPT !.pc = "s_summarize",
                    !.result = IF q.round = 1
                               THEN CodeGenResult(TRUE, q.code, execution_result.data,
                                                  PyNone, q.attempt + 1)
                               ELSE @,
                    !.events = Append(@, StreamEvent("status", "validating",
                                          <<"Checking the results">>, 0, <<>>))]
          ELSE IF q.attempt + 1 > settings.max_retries
          THEN [done EXCEPT !.pc = "stream_done", !.attempt = q.attempt + 1,
                    !.result = IF q.round = 1 THEN failed ELSE @,
                    !.events = @ \o <<retrying,
                         failure_event(IF q.round = 1 THEN failed ELSE q.result)>>]
          ELSE [done EXCEPT !.pc = "s_generate", !.attempt = q.attempt + 1,
                    !.events = Append(@, retrying),
                    !.messages = _build_retry_messages(q.base_messages,
                                      q.code, error_info(execution_result))]]
    /\ UNCHANGED <<settings, validator, timeout_seconds, threads>>
    /\ UNCHANGED callerVars
    /\ UNCHANGED workerVars

\* execute has returned: the rest of the body of the primary loop (round 1)
\* and of the fallback loop (round 2), up to the next event
StreamExecuteReturns(r) ==
    /\ service[r].pc = "s_execute"
    /\ pc["t1"] = "returned"
    /\ LET q == service[r]
           execution_result == outcome["t1"].result
           done == [q EXCEPT !.executions =
                        Append(@, [round |-> q.round, code |-> q.code,
                                   success |-> execution_result.success,
                                   data |-> execution_result.data,
                                   error |-> execution_result.error,
                                   traceback |-> execution_result.traceback])]
           failed == CodeGenResult(FALSE, q.code, PyNone,
                                   PyStr(error_info(execution_result)), q.attempt + 1)
           retrying == StreamEvent("status", "retrying", <<"Trying another approach">>,
                                   q.attempt + 2, <<>>)
       IN
       service' = [service EXCEPT ![r] =
          IF execution_result.success
          THEN [done EXCEPT !.pc = "s_summarize",
                    !.result = IF q.round = 1
                               THEN CodeGenResult(TRUE, q.code, execution_result.data,
                                                  PyNone, q.attempt + 1)
                               ELSE @,
                    !.events = Append(@, StreamEvent("status", "validating",
                                          <<"Checking the results">>, 0, <<>>))]
          ELSE IF q.attempt + 1 > settings.max_retries
          THEN [done EXCEPT !.pc = "stream_done", !.attempt = q.attempt + 1,
                    !.result = IF q.round = 1 THEN failed ELSE @,
                    !.events = Append(@,
                         failure_event(IF q.round = 1 THEN failed ELSE q.result))]
          ELSE [done EXCEPT !.pc = "s_generate", !.attempt = q.attempt + 1,
                    !.events = Append(@, retrying),
                    !.messages = _build_retry_messages(q.base_messages,
                                      q.code, error_info(execution_result))]]
    /\ UNCHANGED <<settings, validator, timeout_seconds, threads>>
    /\ UNCHANGED callerVars
    /\ UNCHANGED workerVars

\* execute has raised: the exception leaves the generator; event_generator
\* of the route turns an Exception into its own error event
StreamExecuteRaises(r) ==
    /\ service[r].pc = "s_execute"
    /\ pc["t1"] = "raised"
    /\ LET q == service[r]
           e == outcome["t1"].exc
       IN
       service' = [service EXCEPT ![r] =
          IF q.api = "/nfl/chat/stream" /\ IsException(e.cls)
          THEN [q EXCEPT !.pc = "stream_done", !.exc = e,
                         !.events = Append(@, StreamEvent("error", "error",
                                                          e.message, 0, <<>>))]
          ELSE [q EXCEPT !.pc = "raised", !.exc = e]]
    /\ UNCHANGED <<settings, validator, timeout_seconds, threads>>
    /\ UNCHANGED callerVars
    /\ UNCHANGED workerVars

\* _summarize_result has returned (is_valid, summary): the 'complete' event,
\* or the 'fallback' event and the start of the fallback loop; the verdict
\* on the data of the fallback loop is not read
StreamSummarized(r, is_valid, summary) ==
    /\ service[r].pc = "s_summarize"
    /\ LoopFree
    /\ LET q == service[r]
           told == [q EXCEPT !.summaries = Append(@, [round |-> q.round,
                                                      is_valid |-> is_valid])]
           last == q.executions[Len(q.executions)]
       IN
       service' = [service EXCEPT ![r] =
          IF q.round = 1 /\ is_valid
          THEN [told EXCEPT !.pc = "stream_done",
                    !.events = Append(@, StreamEvent("complete", "summarizing",
                         <<"Preparing your answer">>, 0,
                         <<NFLResponse(summary, q.result.code, q.result.data,
                                       q.result.attempts, FALSE)>>))]
          ELSE IF q.round = 1
          THEN [told EXCEPT !.pc = "s_generate", !.round = 2, !.attempt = 0,
                    !.model = settings.fallback_model,
                    !.messages = q.base_messages,
                    !.events = Append(@, StreamEvent("status", "fallback",
                                          <<"Using advanced analysis">>, 0, <<>>))]
          ELSE [told EXCEPT !.pc = "stream_done",
                    !.events = Append(@, StreamEvent("complete", "summarizing",
                         <<"Preparing your answer">>, 0,
                         <<NFLResponse(summary, q.code, last.data,
                                       q.result.attempts + q.attempt + 1, TRUE)>>))]]
    /\ UNCHANGED <<settings, validator, timeout_seconds, threads>>
    /\ UNCHANGED callerVars
    /\ UNCHANGED workerVars

StreamSteps ==
    \/ \E r \in DOMAIN service, a \in StreamArrivals : StreamRequest(r, a[1], a[2])
    \/ \E r \in DOMAIN service : StreamGenerate(r)
    \/ \E r \in DOMAIN service, response \in Responses : StreamTextAnswer(r, response)
    \/ \E r \in DOMAIN service, response \in Responses : StreamCodeAnswer(r, response)
    \/ \E r \in DOMAIN service : StreamExecuteReturns(r)
    \/ \E r \in DOMAIN service : StreamExecuteRaises(r)
    \/ \E r \in DOMAIN service, is_valid \in BOOLEAN,
         summary \in {<<"The team scored 42 points">>} :
          StreamSummarized(r, is_valid, summary)

NextStream == StreamSteps \/ ExecutorStep

\* one request served by process_chat_streaming
SpecStream == InitService /\ [][NextStream]_vars

\* two requests, each served by process, process_chat or
\* process_chat_streaming
SpecStreamConc == InitServiceConc /\ [][NextService \/ StreamSteps]_vars


\* ------------------------------------------------------------------------
\* Properties
\* ------------------------------------------------------------------------
Left(c) == pc[c] \in {"returned", "raised"}

\* validation of src completes with at least one diagnostic
HasDiagnostics(src) ==
    \/ src.parse = "SyntaxError"
    \/ ~src.deep /\ ASTValidator(TreeOf(src)) # <<>>

\* the worker of the call of c has ended with an exception that the candidate
\* raised in its top-level code or in run()
CandidateRaised(c) ==
    /\ future[c].state = "finished"
    /\ future[c].exception # NoException
    /\ stage[c] \in {"top", "run"}

\* C1: a call whose source has a diagnostic never creates a worker, a future
\* or an environment, runs no statement of the source, and returns a failure
C1_HardGate ==
    \A c \in threads :
        (pc[c] # "idle" /\ HasDiagnostics(code[c])) =>
            /\ wpc[c] = "none" /\ stage[c] = "none"
            /\ future[c] = NoFuture /\ env[c] = <<>>
            /\ pc[c] \in {"validate", "returned"}
            /\ pc[c] = "returned" =>
                 (outcome[c].kind = "return" /\ ~outcome[c].result.success)

\* a source with a disallowed import has been rejected under the largest timeout
C1_Witness ==
    \E c \in threads :
        /\ pc[c] = "returned" /\ code[c].top = "import_os"
        /\ timeout_seconds = MaxTimeout
        /\ ~outcome[c].result.success

\* C2: every call of execute that has started eventually leaves execute
C2_ExecuteTerminates ==
    \A c \in Callers : (pc[c] = "validate") ~> Left(c)

\* C3: a call that left future.result is never held back by its worker: when
\* the deadline has passed the with block is left without waiting
C3_TimeoutDoesNotWait ==
    \A c \in threads : pc[c] = "exit_with" => shutdown_done(wpc[c])

\* C4: a call whose candidate raised returns a failure (the timeout failure if
\* the deadline passed first, else the message and a traceback); it does not raise
C4_CandidateExceptionReturned ==
    \A c \in threads :
        (Left(c) /\ CandidateRaised(c)) =>
            /\ outcome[c].kind = "return"
            /\ ~outcome[c].result.success
            /\ \/ outcome[c].result = TimeoutFailure(timeout_seconds)
               \/ /\ outcome[c].result.error = PyStr(future[c].exception.message)
                  /\ outcome[c].result.traceback # PyNone

\* C5: a call whose validation raised anything returns a failure
C5_ValidatorExceptionReturned ==
    \A c \in threads :
        (Left(c) /\ validate_code(code[c]) # NoException) =>
            (outcome[c].kind = "return" /\ ~outcome[c].result.success)

\* C6: a returned result has data and no error on success, and a non-empty
\* error and no data on failure
C6_ExactlyOnePopulated ==
    \A c \in threads :
        pc[c] = "returned" =>
            LET r == outcome[c].result IN
            /\ r.success => (r.data # PyNone /\ r.error = PyNone)
            /\ ~r.success => (r.error.t = "str" /\ r.error.v # <<>> /\ r.data = PyNone)

\* C7: a returned result has a traceback only if it is the failure of an
\* exception the candidate raised
C7_TracebackOnlyForRuntimeError ==
    \A c \in threads :
        (pc[c] = "returned" /\ outcome[c].result.traceback # PyNone) =>
            (~outcome[c].result.success /\ CandidateRaised(c))

\* the future a call of src ends with when nothing ran before it, NoFuture
\* if its worker never ends
AloneFuture(src) ==
    LET e == _create_execution_environment("t1", 1, InitialDicts)
        top == ExecStmt(src.top, src, e.g, e.d, InitialModattr)
        g == bind_run(src, top.g)
        body == ExecStmt(src.body, src, g, top.d, top.m)
        ret == EvalRet(src, body.g, body.d, body.m)
    IN
    IF src.top = "loop" THEN NoFuture
    ELSE IF top.exc # NoException THEN Future("finished", PyNone, top.exc)
    ELSE IF check_run(g) # NoException THEN Future("finished", PyNone, check_run(g))
    ELSE IF src.body = "loop" THEN NoFuture
    ELSE IF body.exc # NoException THEN Future("finished", PyNone, body.exc)
    ELSE IF ret.exc # NoException THEN Future("finished", PyNone, ret.exc)
    ELSE IF check_serializable(ret.val) # NoException
    THEN Future("finished", PyNone, check_serializable(ret.val))
    ELSE Future("finished", ret.val, NoException)

\* what execute(src) can hand to its caller when it is the only call the
\* process ever makes
AloneOutcomes(src, timeout) ==
    LET e == validate_code(src) IN
    IF e # NoException
    THEN IF e.cls = "CodeValidationError"
         THEN {Returned(CodeExecutionResult(FALSE, PyNone, PyStr(e.message), PyNone))}
         ELSE {Raised(e)}
    ELSE IF AloneFuture(src) = NoFuture THEN {}
    ELSE {Returned(TimeoutFailure(timeout)),
          except_clauses(future_result(AloneFuture(src), timeout))}

\* C8: what a call hands to its caller is what its source and the timeout
\* give when no call was made before it
C8_ResultDependsOnOwnCallOnly ==
    \A c \in threads :
        Left(c) => outcome[c] \in AloneOutcomes(code[c], timeout_seconds)

\* the value name is bound to when a call starts
OriginalBinding(name) ==
    IF name \in DOMAIN SAFE_BUILTINS THEN SAFE_BUILTINS[name]
    ELSE IF name = "__import__" THEN PyFunction("_safe_import")
    ELSE IF name \in ALLOWED_IMPORTS THEN PyModule(ModuleOf(name))
    ELSE Unbound

BoundNames ==
    DOMAIN SAFE_BUILTINS \cup ALLOWED_IMPORTS \cup CandidateNames \cup {"__import__"}

\* C9: SAFE_BUILTINS never changes, and when the worker of a call is about to
\* run the source every name resolves to its original value, whatever earlier
\* calls rebound in their globals or in their built-ins tables
C9_NameBindingsIsolated ==
    /\ dicts[SafeBuiltinsId] = SAFE_BUILTINS
    /\ \A c \in threads :
          wpc[c] = "exec" =>
              /\ DOMAIN env[c] = ALLOWED_IMPORTS \cup {"__builtins__"}
              /\ \A name \in BoundNames :
                    Lookup(env[c], dicts, name) = OriginalBinding(name)

\* the first call of a thread rebound len in its built-ins table and the
\* worker of its second call is about to run the source
C9_Witness ==
    \E c \in threads :
        /\ calls[c] = 2 /\ wpc[c] = "exec"
        /\ FreshId(c, 1) \in DOMAIN dicts
        /\ dicts[FreshId(c, 1)]["len"] = PyInt(5)

\* C10: with calls running in parallel, what each call hands to its caller is
\* what it hands to its caller when run alone
C10_ParallelCallsAsAlone ==
    Cardinality(threads) > 1 =>
        \A c \in threads :
            pc[c] = "returned" => outcome[c] \in AloneOutcomes(code[c], timeout_seconds)

\* the worker of the call of c has called run() and run() has returned
RunReturned(c) == wpc[c] = "dumps" \/ stage[c] \in {"dumps", "returned"}

\* x is a mapping, a list, a number, a string, a boolean or null whose
\* elements are such values again
JSONScalars == {"str", "int", "float", "bool", "NoneType"}
Representable(x) ==
    \/ x.t \in JSONScalars
    \/ /\ x.t \in {"dict", "list"}
       /\ x.v # <<>> => x.v[1] \in JSONScalars

\* C11: a call whose run() returned a value representable as JSON returns
\* success with that value as data, unless the deadline passed first
C11_JsonValueReturned ==
    \A c \in threads :
        (Left(c) /\ RunReturned(c) /\ Representable(retval[c])) =>
            \/ outcome[c] = Returned(CodeExecutionResult(TRUE, retval[c], PyNone, PyNone))
            \/ outcome[c] = Returned(TimeoutFailure(timeout_seconds))

\* C12: a call of a valid source whose run() returned a mapping of JSON
\* values, and that left execute before the deadline, returns success with
\* that mapping as data, no error and no traceback
C12_MappingReturned ==
    \A c \in threads :
        (/\ Left(c) /\ validate_code(code[c]) = NoException
         /\ code[c].run = "def" /\ RunReturned(c)
         /\ retval[c].t = "dict" /\ Representable(retval[c])
         /\ elapsed[c] < timeout_seconds) =>
            outcome[c] = Returned(CodeExecutionResult(TRUE, retval[c], PyNone, PyNone))

\* the source of the unit test returned its mapping before the deadline of
\* the largest timeout
C12_Witness ==
    \E c \in threads :
        /\ pc[c] = "returned" /\ code[c] = Plain("pass", "def", "pass", "dict")
        /\ elapsed[c] < timeout_seconds /\ timeout_seconds = MaxTimeout
        /\ retval[c] = Dict1(PyInt(42))
        /\ outcome[c].result.success /\ outcome[c].result.data = Dict1(PyInt(42))

\* C13: a call whose run() returned a value that json.dumps rejects returns a
\* failure whose error names the JSON-serializable requirement, with no data
\* and no traceback (or the timeout failure if the deadline passed first)
C13_SerializationGate ==
    \A c \in threads :
        (Left(c) /\ RunReturned(c) /\ json_dumps(retval[c]) # NoException) =>
            /\ outcome[c].kind = "return"
            /\ ~outcome[c].result.success
            /\ \/ outcome[c].result = TimeoutFailure(timeout_seconds)
               \/ /\ outcome[c].result.error.t = "str"
                  /\ outcome[c].result.error.v # <<>>
                  /\ outcome[c].result.error.v[1] =
                        "run() must return JSON-serializable data. Got error:"
                  /\ outcome[c].result.data = PyNone
                  /\ outcome[c].result.traceback = PyNone

\* the top-level source of the call of c has run to its end
TopLevelRan(c) == wpc[c] = "check" \/ stage[c] \in {"entry", "run", "dumps", "returned"}

EntryPointFailure ==
    CodeExecutionResult(FALSE, PyNone,
        PyStr(<<"Code must define a callable run() function with no arguments">>),
        PyNone)

\* C14: once the top-level source has run and run is unbound or not callable,
\* run() is never invoked and the call returns the failure that names the
\* run() requirement, without data or traceback (or the timeout failure if the
\* deadline passed first)
C14_EntryPointContract ==
    \A c \in threads :
        (TopLevelRan(c) /\ ("run" \notin DOMAIN env[c] \/ ~callable(env[c]["run"]))) =>
            /\ wpc[c] \notin {"run", "dumps"}
            /\ ~RunReturned(c)
            /\ retval[c] = PyNone
            /\ pc[c] # "raised"
            /\ pc[c] = "returned" =>
                  \/ outcome[c] = Returned(EntryPointFailure)
                  \/ /\ elapsed[c] = timeout_seconds
                     /\ outcome[c] = Returned(TimeoutFailure(timeout_seconds))

\* a source that binds run to a number was answered with the entry-point
\* failure under the largest timeout
C14_Witness ==
    \E c \in threads :
        /\ pc[c] = "returned" /\ code[c].run = "noncallable"
        /\ stage[c] = "entry" /\ timeout_seconds = MaxTimeout
        /\ outcome[c] = Returned(EntryPointFailure)

\* C15: a call whose source does not parse gets the one syntax-error
\* diagnostic, not the diagnostics of a tree walk, never creates a worker, a
\* future or an environment, and returns the failure with that message
C15_FailClosedOnParseError ==
    \A c \in threads :
        (pc[c] # "idle" /\ code[c].parse = "SyntaxError") =>
            /\ validate_code(code[c]) = CodeValidationError(<<"Syntax error in code">>)
            /\ wpc[c] = "none" /\ stage[c] = "none"
            /\ future[c] = NoFuture /\ env[c] = <<>>
            /\ pc[c] \in {"validate", "returned"}
            /\ pc[c] = "returned" =>
                  outcome[c] = Returned(CodeExecutionResult(FALSE, PyNone,
                                   PyStr(<<"Syntax error in code">>), PyNone))

\* a malformed source whose text holds a disallowed import has been answered
C15_Witness ==
    \E c \in threads :
        /\ pc[c] = "returned" /\ code[c].parse = "SyntaxError"
        /\ code[c].top = "import_os"
        /\ outcome[c].result.error = PyStr(<<"Syntax error in code">>)

\* the failure of a timeout under the configured timeout_seconds
ExpectedTimeoutFailure ==
    [success |-> FALSE, data |-> PyNone,
     error |-> PyStr(<<"Code execution timed out after", ToString(timeout_seconds),
                       "seconds">>),
     traceback |-> PyNone]

\* C16: when the deadline passes before the future is finished, the result
\* that leaves the with block and reaches the caller has success false, the
\* error stating timeout_seconds, no data and no traceback
C16_TimeoutFailureShape ==
    \A c \in threads :
        /\ (pc[c] = "exit_with" /\ future[c].state # "finished") =>
              pending[c] = Returned(ExpectedTimeoutFailure)
        /\ (Left(c) /\ pending[c].kind = "return" /\ ~pending[c].result.success) =>
              outcome[c] = Returned(ExpectedTimeoutFailure)

\* a call whose worker had not finished at the deadline of the largest timeout
\* has returned the timeout failure
C16_Witness ==
    \E c \in threads :
        /\ pc[c] = "returned" /\ elapsed[c] = timeout_seconds
        /\ timeout_seconds = MaxTimeout
        /\ "raise_timeout" \notin {code[c].top, code[c].body}
        /\ outcome[c] = Returned(ExpectedTimeoutFailure)

\* the nodes of a tree, each before its children, children in field order
RECURSIVE PreOrder(_)
RECURSIVE PreOrderFrom(_, _)
PreOrderFrom(children, i) ==
    IF i > Len(children) THEN <<>>
    ELSE PreOrder(children[i]) \o PreOrderFrom(children, i + 1)

PreOrder(node) == <<node>> \o PreOrderFrom(node.children, 1)

Disallowed(name) == name # <<>> /\ name[1] \notin ALLOWED_IMPORTS

\* the violations of one node, as the diagnostics that name them
ImportViolations(node) ==
    IF node.type = "Import"
    THEN LET bad == SelectSeq(node.names, Disallowed) IN
         [i \in 1..Len(bad) |-> <<"Import of">> \o bad[i]]
    ELSE IF node.type = "ImportFrom" /\ Disallowed(node.names[1])
    THEN << <<"Import from">> \o node.names[1] >>
    ELSE <<>>

CallViolations(node) ==
    IF /\ node.type = "Call"
       /\ node.children[1].type \in {"Name", "Attribute"}
       /\ node.children[1].id \in FORBIDDEN_CALLS
    THEN << <<"Call to", node.children[1].id>> >>
    ELSE <<>>

AttributeViolations(node) ==
    IF node.type = "Attribute" /\ node.id \in FORBIDDEN_ATTRIBUTES
    THEN << <<"Access to", node.id>> >>
    ELSE <<>>

Violations(node) ==
    ImportViolations(node) \o CallViolations(node) \o AttributeViolations(node)

\* the diagnostics of the violations of the nodes in nodes, in order
ViolationsOf(tree) ==
    LET nodes == PreOrder(tree) IN
    Flatten([i \in 1..Len(nodes) |-> Violations(nodes[i])])

CallViolationsOf(tree) ==
    LET nodes == PreOrder(tree) IN
    Flatten([i \in 1..Len(nodes) |-> CallViolations(nodes[i])])

AttributeViolationsOf(tree) ==
    LET nodes == PreOrder(tree) IN
    Flatten([i \in 1..Len(nodes) |-> AttributeViolations(nodes[i])])

IsCallDiagnostic(e) == e[1] = "Call to"
IsAttributeDiagnostic(e) == e[1] = "Access to"

Walked == validator.state \in {"walked", "accepted", "rejected"}

\* C17: the walk leaves one diagnostic for every violation of every node of
\* the tree, those below a violating node included, and a tree with N > 0
\* violations is rejected with a failure whose error holds all N diagnostics
C17_ValidatorAccumulates ==
    LET expected == ViolationsOf(validator.tree) IN
    /\ Walked => validator.errors = expected
    /\ validator.state = "accepted" => expected = <<>>
    /\ validator.state = "rejected" =>
          /\ expected # <<>>
          /\ validator.outcome =
                Returned(CodeExecutionResult(FALSE, PyNone,
                    PyStr(<<"Code validation failed:">> \o Flatten(expected)), PyNone))

\* a program with a disallowed import, a forbidden call and a forbidden
\* attribute has been rejected with three diagnostics
C17_Witness ==
    /\ validator.state = "rejected"
    /\ validator.tree = Module(<<Import(<< <<"os">> >>),
                                 Stmt(<<Call(Name("eval"), <<>>)>>),
                                 Stmt(<<Attribute(Name("x"), "__globals__")>>)>>)
    /\ Len(validator.errors) = 3
    /\ validator.outcome.result.error =
          PyStr(<<"Code validation failed:", "Import of", "os", "Call to", "eval",
                  "Access to", "__globals__">>)

\* C18: a program that is one import statement of one module has no
\* diagnostic if the first component of the module name is in
\* ALLOWED_IMPORTS, and else exactly one diagnostic, which names the module
C18_ImportAllowList ==
    Walked =>
        \A n \in ImportNames :
            /\ validator.tree = Module(<<Import(<<n>>)>>) =>
                  validator.errors = IF n[1] \in ALLOWED_IMPORTS THEN <<>>
                                     ELSE << <<"Import of">> \o n >>
            /\ validator.tree = Module(<<ImportFrom(n)>>) =>
                  validator.errors = IF n[1] \in ALLOWED_IMPORTS THEN <<>>
                                     ELSE << <<"Import from">> \o n >>

\* `from os.math import x` has been walked and has its one diagnostic
C18_Witness ==
    /\ Walked
    /\ validator.tree = Module(<<ImportFrom(<<"os", "math">>)>>)
    /\ validator.errors = << <<"Import from", "os", "math">> >>

\* C19: the call diagnostics of a walk are those of the calls of the tree
\* whose target is a bare name in FORBIDDEN_CALLS or an attribute access
\* ending in such a name, one for each, at any depth; other calls have none
C19_CallDenyList ==
    Walked =>
        SelectSeq(validator.errors, IsCallDiagnostic)
            = CallViolationsOf(validator.tree)

\* a method-style getattr call nested in an attribute access and a
\* subscript has been walked and has its diagnostic
C19_Witness ==
    /\ Walked
    /\ validator.tree =
          Module(<<Stmt(<<Subscript(Attribute(
              Call(Attribute(Name("x"), "getattr"), <<>>), "pi"))>>)>>)
    /\ validator.errors = << <<"Call to", "getattr">> >>

\* C20: the attribute diagnostics of a walk are those of the attribute
\* accesses of the tree whose name is in FORBIDDEN_ATTRIBUTES, one for each,
\* wherever they occur; other attribute accesses have none
C20_AttributeDenyList ==
    Walked =>
        SelectSeq(validator.errors, IsAttributeDiagnostic)
            = AttributeViolationsOf(validator.tree)

\* an assignment whose target is x.__globals__.__class__ has been walked
\* and has a diagnostic for each of the two accesses
C20_Witness ==
    /\ Walked
    /\ validator.tree =
          Module(<<Stmt(<<Assign(
              Attribute(Attribute(Name("x"), "__globals__"), "__class__"),
              Name("x"))>>)>>)
    /\ validator.errors = << <<"Access to", "__class__">>, <<"Access to", "__globals__">> >>

\* the model calls and the finished executions of round n of a request
\* (1: the configured model, 2: the fallback model)
ModelCallsOf(r, n) ==
    {i \in DOMAIN service[r].llm_calls : service[r].llm_calls[i].round = n}

ExecutionsOf(r, n) ==
    {i \in DOMAIN service[r].executions : service[r].executions[i].round = n}

\* the execute calls of round n: the finished ones and the one in progress
ExecuteCalls(r, n) ==
    Cardinality(ExecutionsOf(r, n))
    + (IF service[r].round = n /\ service[r].pc = "execute" THEN 1 ELSE 0)

\* C21: a run of _generate_and_execute makes at most max_retries + 1 model
\* calls and at most max_retries + 1 execute calls; when all of its
\* max_retries + 1 executions have failed it returns success false,
\* attempts max_retries + 1 and an error that contains the error of the
\* last execution
C21_RetryBound ==
    \A r \in DOMAIN service : \A n \in 1..2 :
        /\ Cardinality(ModelCallsOf(r, n)) <= settings.max_retries + 1
        /\ ExecuteCalls(r, n) <= settings.max_retries + 1
        /\ LET last == service[r].executions[Len(service[r].executions)]
               Contains(p, s) ==
                   \E i \in 0..(Len(s) - Len(p)) : SubSeq(s, i + 1, i + Len(p)) = p
           IN
           (/\ service[r].pc = "round_done" /\ service[r].round = n
            /\ Cardinality(ExecutionsOf(r, n)) = settings.max_retries + 1
            /\ \A i \in ExecutionsOf(r, n) : ~service[r].executions[i].success) =>
              /\ ~service[r].result.success
              /\ service[r].result.attempts = settings.max_retries + 1
              /\ service[r].result.error # PyNone
              /\ last.error # PyNone
              /\ Contains(last.error.v, service[r].result.error.v)

\* with max_retries 1, a round whose two executions both failed, the
\* last one by a run() that divides by zero, has returned its failure
C21_Witness ==
    \E r \in DOMAIN service :
        /\ service[r].pc = "round_done" /\ settings.max_retries = 1
        /\ service[r].round = 1
        /\ Len(service[r].executions) = 2
        /\ \A i \in DOMAIN service[r].executions : ~service[r].executions[i].success
        /\ service[r].executions[2].code.body = "raise_zerodiv"
        /\ service[r].executions[2].error.v # <<>>
        /\ service[r].result.attempts = 2

\* the successful executions of round n
SucceededIn(r, n) == {i \in ExecutionsOf(r, n) : service[r].executions[i].success}

\* C22: the first successful execution of a run of _generate_and_execute is
\* its last step: it is the k-th and last execution of the run, no model
\* call and no execute call follows it, and the run returns success true,
\* attempts k and the code and data of that execution
C22_StopsAtFirstSuccess ==
    \A r \in DOMAIN service : \A n \in 1..2 :
        SucceededIn(r, n) # {} =>
            LET k == Cardinality(ExecutionsOf(r, n))
                i == CHOOSE j \in SucceededIn(r, n) : TRUE
            IN
            /\ SucceededIn(r, n) = {i}
            /\ \A j \in ExecutionsOf(r, n) : j <= i
            /\ k <= settings.max_retries + 1
            /\ Cardinality(ModelCallsOf(r, n)) = k
            /\ ExecuteCalls(r, n) = k
            /\ (service[r].round = n /\ service[r].pc \in {"round_done", "summarize"}) =>
                  service[r].result =
                      CodeGenResult(TRUE, service[r].executions[i].code,
                                    service[r].executions[i].data, PyNone, k)

\* a run whose first execution failed and whose second succeeded has
\* returned the second candidate and its data with attempts 2
C22_Witness ==
    \E r \in DOMAIN service :
        /\ service[r].pc = "round_done" /\ service[r].round = 1
        /\ Len(service[r].executions) = 2
        /\ ~service[r].executions[1].success
        /\ service[r].executions[1].code # service[r].executions[2].code
        /\ service[r].executions[2].success
        /\ service[r].result.success /\ service[r].result.attempts = 2
        /\ service[r].result.code = service[r].executions[2].code
        /\ service[r].result.data = outcome["t1"].result.data
        /\ service[r].result.data # PyNone

\* C23: a request is in its fallback round exactly when its primary round
\* produced a successful execution that the summarizer judged invalid; the
\* model calls of the fallback round all name the fallback model, and no
\* other model call of the request does
C23_FallbackExactlyOnInvalidData ==
    \A r \in DOMAIN service :
        /\ (service[r].round = 2) <=>
              /\ SucceededIn(r, 1) # {}
              /\ service[r].summaries # <<>>
              /\ service[r].summaries[1].round = 1
              /\ ~service[r].summaries[1].is_valid
        /\ ModelCallsOf(r, 2) # {} => service[r].round = 2
        /\ \A i \in DOMAIN service[r].llm_calls :
              (service[r].llm_calls[i].round = 2)
                  <=> (service[r].llm_calls[i].model = settings.fallback_model)

\* a request whose primary data was judged invalid has called the fallback
\* model, run its candidate and returned
C23_Witness ==
    \E r \in DOMAIN service :
        /\ service[r].pc = "returned"
        /\ service[r].executions # <<>> /\ service[r].executions[1].success
        /\ service[r].summaries # <<>>
        /\ service[r].summaries[1] = [round |-> 1, is_valid |-> FALSE]
        /\ Len(service[r].llm_calls) = 2
        /\ service[r].llm_calls[1].round = 1
        /\ service[r].llm_calls[1].model = "gpt-5.1"
        /\ service[r].llm_calls[2].round = 2
        /\ service[r].llm_calls[2].model = "gpt-5.1-codex"
        /\ ExecutionsOf(r, 2) # {}

C25_AttemptsCountGenerations ==
    \A r \in DOMAIN service :
        service[r].pc = "returned" =>
            service[r].response.attempts = Len(service[r].llm_calls)

\* C26: a request with an empty list of messages makes no model call and
\* no execute call; process_chat returns 'No messages provided' with
\* attempts 0, and the /nfl/chat route raises status 400 and has no
\* response of the service
C26_EmptyConversation ==
    /\ \A r \in DOMAIN service :
          service[r].chat_messages = "empty" =>
              /\ service[r].llm_calls = <<>> /\ service[r].executions = <<>>
              /\ service[r].summaries = <<>>
              /\ service[r].api = "process_chat" =>
                    /\ service[r].pc = "returned"
                    /\ service[r].response =
                          NFLResponse(<<"No messages provided">>, NoCode, PyNone, 0, FALSE)
              /\ service[r].api = "/nfl/chat" =>
                    /\ service[r].pc = "http_error" /\ service[r].status = "400"
                    /\ service[r].exc.message = <<"No messages provided">>
                    /\ service[r].response = NoResponse
    /\ (\A r \in DOMAIN service : service[r].chat_messages \in {"none", "empty"}) =>
          calls["t1"] = 0 /\ pc["t1"] = "idle"

\* the route has rejected one empty conversation and process_chat has
\* answered another, and execute was never called
C26_Witness ==
    /\ service["r1"].api = "/nfl/chat" /\ service["r1"].chat_messages = "empty"
    /\ service["r1"].status = "400"
    /\ service["r2"].api = "process_chat" /\ service["r2"].chat_messages = "empty"
    /\ service["r2"].response.attempts = 0
    /\ calls["t1"] = 0

\* C27: when the model has answered a request of process with text and no
\* run_nflreadpy_code call, the returned NFLResponse has exactly that text
\* as its response, no code_generated and no raw_data
C27_TextAnswerReturned ==
    \A r \in DOMAIN service :
        (service[r].api = "process" /\ service[r].pc = "returned"
             /\ service[r].text_response # PyNone) =>
            /\ service[r].response.response = service[r].text_response.v
            /\ service[r].response.code_generated = NoCode
            /\ service[r].response.raw_data = PyNone

\* C28: a call that has left execute has returned a result, and the result
\* is the one of the first failing step in the order validate, top-level
\* source, entry point, run, serialize (success when none fails), or the
\* timeout failure when the deadline was reached; after a failed validation
\* no worker has run
C28_OutcomeByFirstFailingStep ==
    LET ResultKind(result) ==
            LET first == IF result.error = PyNone \/ result.error.v = <<>>
                         THEN "" ELSE result.error.v[1]
            IN
            IF result.success THEN "Succeeded"
            ELSE IF result.traceback # PyNone THEN "runtime-error"
            ELSE IF first \in {"Syntax error in code", "Code validation failed:"}
            THEN "validation"
            ELSE IF first = "Code must define a callable run() function with no arguments"
            THEN "missing-entry-point"
            ELSE IF first = "run() must return JSON-serializable data. Got error:"
            THEN "non-serializable"
            ELSE IF first = "Code execution timed out after" THEN "timeout"
            ELSE "other"
        StepKind(c) ==
            IF validate_code(code[c]) # NoException THEN "validation"
            ELSE IF future[c].exception = NoException THEN "Succeeded"
            ELSE CASE stage[c] = "entry" -> "missing-entry-point"
                   [] stage[c] = "dumps" -> "non-serializable"
                   [] OTHER -> "runtime-error"
    IN
    \A c \in threads :
        Left(c) =>
            /\ outcome[c].kind = "return"
            /\ \/ ResultKind(outcome[c].result) = StepKind(c)
               \/ /\ ResultKind(outcome[c].result) = "timeout"
                  /\ validate_code(code[c]) = NoException
                  /\ elapsed[c] = timeout_seconds
            /\ validate_code(code[c]) # NoException =>
                  wpc[c] = "none" /\ stage[c] = "none"

\* C29: once the deadline has passed before the worker finished, the
\* timeout failure is the result that waits to be returned; it stays so
\* whatever the worker then stores in its future, it is what the call
\* returns, and a call that has begun afterwards holds no future and no
\* result of an earlier call
C29_TimeoutResultIsFinal ==
    [][\A c \in threads :
          /\ (pc[c] = "exit_with"
                 /\ pending[c] = Returned(TimeoutFailure(timeout_seconds))) =>
                /\ pending'[c] = pending[c]
                /\ pc'[c] \in {"exit_with", "returned"}
                /\ pc'[c] = "returned" =>
                      outcome'[c] = Returned(TimeoutFailure(timeout_seconds))
          /\ (pc[c] = "wait" /\ elapsed[c] = timeout_seconds
                 /\ future[c].state # "finished" /\ pc'[c] # "wait") =>
                pending'[c] = Returned(TimeoutFailure(timeout_seconds))
          /\ pc'[c] \in {"validate", "submit"} =>
                /\ future'[c] = NoFuture /\ pending'[c] = Nothing
                /\ outcome'[c] = Nothing /\ wpc'[c] = "none"]_vars

\* a call has returned the timeout failure, and the future of its worker
\* holds the mapping run() returned after the deadline
C29_Witness ==
    \E c \in threads :
        /\ pc[c] = "returned"
        /\ outcome[c] = Returned(TimeoutFailure(timeout_seconds))
        /\ "raise_timeout" \notin {code[c].top, code[c].body}
        /\ future[c].state = "finished" /\ future[c].exception = NoException
        /\ future[c].result.t = "dict"

\* C30: candidate executions started by the service do not overlap: at
\* most one request is inside execute, a worker runs candidate code only
\* while that request waits inside execute on the thread of the event
\* loop, and no other thread has a worker; so a call of execute begins
\* only when the worker of the call before it has finished
C30_ExecutionsDoNotOverlap ==
    LET Running(c) == wpc[c] \notin {"none", "done"}
        Executing == {r \in DOMAIN service : service[r].pc = "execute"}
    IN
    /\ Cardinality(Executing) <= 1
    /\ Running("t1") => (Executing # {} /\ pc["t1"] \in {"wait", "exit_with"})
    /\ pc["t1"] \in {"validate", "submit"} => wpc["t1"] = "none"
    /\ \A c \in Callers \ {"t1"} : wpc[c] = "none"

\* the candidate of one request has timed out, and the worker of the
\* next call of execute, made for another request, is running
C30_Witness ==
    \E r \in DOMAIN service, q \in DOMAIN service :
        /\ r # q
        /\ service[q].executions # <<>>
        /\ service[q].executions[1].error = TimeoutFailure(timeout_seconds).error
        /\ service[r].pc = "execute" /\ calls["t1"] = 2
        /\ wpc["t1"] = "run"

C32_ChatReturnsWithinTwoRounds ==
    \A r \in DOMAIN service :
        LET q == service[r] IN
        /\ q.api \in {"/nfl/chat", "process_chat"} =>
              /\ q.round <= 2
              /\ Len(q.summaries) <= 2
              /\ \A i \in DOMAIN q.llm_calls : q.llm_calls[i].round \in {1, 2}
        /\ (/\ q.api \in {"/nfl/chat", "process_chat"}
            /\ q.pc \in {"returned", "raised", "http_error"}
            /\ q.status # "400")
           => /\ q.pc = "returned"
              /\ q.response # NoResponse
              /\ (Len(q.summaries) = 2 =>
                    /\ q.response.used_fallback
                    /\ q.response.code_generated = q.result.code)

C37_FallThroughUnreachable ==
    \A r \in DOMAIN service :
        LET q == service[r] IN
        /\ q.pc = "generate" => q.attempt <= settings.max_retries
        /\ q.pc \in {"round_done", "summarize"} =>
              /\ q.result.attempts >= 1
              /\ q.result.attempts <= settings.max_retries + 1
              /\ q.result.error # PyStr(<<"Unexpected error in processing loop">>)
              /\ \/ q.result.success
                 \/ q.text_response # PyNone
                 \/ q.result.attempts = settings.max_retries + 1

\* with max_retries 0 the only execution has failed and the function has
\* returned through the retries-exhausted return
C37_Witness ==
    \E r \in DOMAIN service :
        /\ settings.max_retries = 0
        /\ service[r].pc = "round_done"
        /\ service[r].text_response = PyNone
        /\ ~service[r].result.success
        /\ service[r].result.attempts = 1
        /\ service[r].result.error # PyNone

\* C38: for every dotted module name the validator has no diagnostic for
\* `import <name>` exactly if _safe_import permits the name, and for every
\* other name _safe_import raises ImportError; a call whose candidate
\* imported a name outside ALLOWED_IMPORTS, by an import statement or through
\* the hook in its built-ins table, has returned a failure that names the
\* module unless the deadline passed first, and the modules bound in the globals of a call are those of
\* ALLOWED_IMPORTS
C38_ImportHookMatchesValidator ==
    LET Contains(p, t) ==
            \E i \in 0..(Len(t) - Len(p)) : SubSeq(t, i + 1, i + Len(p)) = p
        imports == {"import_os", "import_mod", "hook_mod"}
    IN
    /\ \A n \in ImportNames :
          /\ ASTValidator(Module(<<Import(<<n>>)>>)) = <<>>
                <=> _safe_import(n) = NoException
          /\ _safe_import(n) = NoException <=> n[1] \in ALLOWED_IMPORTS
          /\ _safe_import(n) # NoException => _safe_import(n).cls = "ImportError"
    /\ \A c \in threads :
          /\ (Left(c) /\ code[c].parse = "ok" /\ ~code[c].deep
                 /\ code[c].top \in imports) =>
                LET name == IF code[c].top = "import_os" THEN "os" ELSE code[c].mod IN
                /\ pc[c] = "returned"
                /\ IF outcome[c].result = TimeoutFailure(timeout_seconds)
                   THEN TRUE
                   ELSE IF name \in ALLOWED_IMPORTS
                   THEN code[c].body = "pass" => outcome[c].result.success
                   ELSE /\ ~outcome[c].result.success
                        /\ Contains(<<"Import of", name>>, outcome[c].result.error.v)
          /\ \A k \in DOMAIN env[c] :
                env[c][k].t = "module" =>
                    k \in ALLOWED_IMPORTS /\ env[c][k] = PyModule(ModuleOf(k))

\* a candidate that called the hook of its built-ins table with 'os' has
\* passed the validator and has failed in the worker with the ImportError
C38_Witness ==
    \E c \in threads :
        /\ pc[c] = "returned"
        /\ code[c].top = "hook_mod" /\ code[c].mod = "os"
        /\ ~outcome[c].result.success
        /\ outcome[c].result.error = PyStr(<<"Import of", "os", "is not allowed">>)
        /\ outcome[c].result.traceback # PyNone

\* C34: in a stream of process_chat_streaming every event before the last
\* is a status event; a stream that has ended, by its end or by an
\* exception, has a last event and that event is 'complete' or 'error'; the
\* first event for a non-empty conversation is the 'analyzing' status
C34_OneTerminalEventLast ==
    \A r \in DOMAIN service :
        LET q == service[r] IN
        q.api \in {"/nfl/chat/stream", "process_chat_streaming"} =>
            /\ \A i \in 1..(Len(q.events) - 1) : q.events[i].event = "status"
            /\ (q.chat_messages = "nonempty" /\ q.pc \notin {"idle", "http_error"}) =>
                  /\ q.events # <<>>
                  /\ q.events[1].event = "status"
                  /\ q.events[1].step = "analyzing"
            /\ q.pc \in {"stream_done", "raised"} =>
                  /\ q.events # <<>>
                  /\ q.events[Len(q.events)].event \in {"complete", "error"}

\* C35: in a stream every 'executing' event comes directly after a
\* 'generating' status event with the same attempt; the attempts of the
\* 'generating' status events of a round (the events before and after 'fallback')
\* are 1, 2, ... and at most max_retries + 1; a 'retrying' event comes
\* directly after the 'executing' event of an execution that failed, is
\* never the last event of a stream that has ended, and the event after it
\* is a 'generating' event
C35_StreamEventOrder ==
    \A r \in DOMAIN service :
        LET q == service[r]
            e == q.events
            generating(i) == e[i].event = "status" /\ e[i].step = "generating"
            earlier(i) == {j \in 1..(i - 1) :
                              /\ generating(j)
                              /\ \A k \in j..i : e[k].step # "fallback"}
            latest(S) == CHOOSE j \in S : \A k \in S : k <= j
            nth(i) == Cardinality({j \in 1..i : e[j].step = "executing"})
        IN
        \A i \in DOMAIN e :
            /\ e[i].step = "executing" =>
                  /\ i > 1
                  /\ generating(i - 1)
                  /\ e[i - 1].attempt = e[i].attempt
            /\ generating(i) =>
                  /\ e[i].attempt =
                        IF earlier(i) = {} THEN 1 ELSE e[latest(earlier(i))].attempt + 1
                  /\ e[i].attempt <= settings.max_retries + 1
            /\ e[i].step = "retrying" =>
                  /\ i > 1
                  /\ e[i - 1].step = "executing"
                  /\ Len(q.executions) >= nth(i)
                  /\ ~q.executions[nth(i)].success
                  /\ i < Len(e) => generating(i + 1)
                  /\ q.pc \in {"stream_done", "raised"} => i < Len(e)

\* a stream whose first execution failed: 'retrying', then the second
\* 'generating' and 'executing' events, both with attempt 2
C35_Witness ==
    \E r \in DOMAIN service :
        /\ Len(service[r].events) >= 6
        /\ service[r].events[3].step = "executing"
        /\ service[r].events[4].step = "retrying"
        /\ service[r].events[5].step = "generating"
        /\ service[r].events[5].attempt = 2
        /\ service[r].events[6].step = "executing"
        /\ service[r].events[6].attempt = 2
        /\ service[r].pc = "stream_done"

\* C36: when a call of process_chat has returned and a stream of
\* process_chat_streaming has ended for the same non-empty conversation, and
\* both got the same answers of the model, the same results of execute and
\* the same verdicts of the summarizer, the last event of the stream carries
\* the NFLResponse that process_chat returned
C36_StreamAgreesWithChat ==
    \A r \in DOMAIN service, s \in DOMAIN service :
        (/\ service[r].api = "/nfl/chat"
         /\ service[r].chat_messages = "nonempty"
         /\ service[r].pc = "returned"
         /\ service[s].api \in {"/nfl/chat/stream", "process_chat_streaming"}
         /\ service[s].chat_messages = "nonempty"
         /\ service[s].pc = "stream_done"
         /\ service[s].exc = NoException
         /\ service[r].answers = service[s].answers
         /\ service[r].executions = service[s].executions
         /\ service[r].summaries = service[s].summaries)
        => service[s].events[Len(service[s].events)].data = <<service[r].response>>

====
